---- MODULE Spec2Model ----
(***************************************************************************)
(* A model of the rule expression engine of marble-backend: the legacy     *)
(* boolean operator codec (package operators), the Equal and Filter        *)
(* evaluators (package evaluate) and the data model's field-path lookup    *)
(* (package app); and of the orchestration around it: the scenario         *)
(* publisher, the GCS repository, the webhooks usecase and the status of   *)
(* scheduled executions.  Each component is a small state machine of its   *)
(* own; the variable component says which one a behaviour runs.            *)
(***************************************************************************)
EXTENDS Integers, Sequences, FiniteSets, TLC

VARIABLES
    component,   \* which part of the program this behaviour exercises
    pc,          \* position of the running operation
    tree,        \* codec: the operator tree handed to MarshalJSON
    jsonBytes,   \* codec: the wire form handed to unmarshalOperatorBool
    tamperedAt,  \* codec: where the wire form got an unregistered discriminator
    decoded,     \* codec: what unmarshalOperatorBool returned
    arguments,   \* the inputs of the running or last call (evaluators: the ast.Arguments)
    evaluation,  \* evaluators: what Evaluate returned (value, errors)
    rootName,    \* FieldAt: the table name of the current call
    path,        \* FieldAt: the path of the current call
    calls,       \* FieldAt: recursive calls made so far; usecases, repositories: calls made so far
    field,       \* FieldAt: what the call returned
    stack,       \* AllErrors: the evaluations addEvaluationErrors has still to visit
    allErrs,     \* AllErrors: the errors collected so far
    results,     \* what the calls made so far returned (publisher, webhooks, GCS: the last call)
    ctx,         \* evaluators: the execution context of the caller of Evaluate
    repoCalls,   \* the calls the running operation made to its collaborators, in order
    evaluated,   \* evaluator: the evaluations of the operands resolved so far
    procs,       \* concurrent evaluations: the state of each evaluation
    registry,    \* concurrent evaluations: the map operatorFromType
    database,    \* publisher, webhooks: the rows kept by the repositories
    faithful,    \* publisher: whether every call so far was given the current live id and succeeded
    gcsClient,   \* GcsRepositoryImpl: the cached *storage.Client
    storageClients \* GcsRepositoryImpl: the clients storage.NewClient has made, each open or closed

vars == <<component, pc, tree, jsonBytes, tamperedAt, decoded, arguments,
          evaluation, rootName, path, calls, field, stack, allErrs, results, ctx, repoCalls, evaluated, procs, registry, database, faithful, gcsClient, storageClients>>

\* Go's nil: a nil interface, a nil error list, an absent result.
Nil == [kind |-> "nil"]

NoErrors == <<>>

-----------------------------------------------------------------------------
(***************************************************************************)
(* Operator codec (src/unnamed/part_001, package operators)                *)
(***************************************************************************)

\* Nesting depth of the operator trees that are encoded and decoded.
MaxDepth == 2

\* type True struct{}, type False struct{}, type EqBool struct{ Left, Right }
True == [op |-> "True"]

False == [op |-> "False"]

EqBool(l, r) == [op |-> "EqBool", Left |-> l, Right |-> r]

RECURSIVE OperatorTrees(_)
OperatorTrees(d) ==
    IF d = 0 THEN {True, False}
    ELSE LET sub == OperatorTrees(d - 1)
         IN  {True, False} \cup {EqBool(l, r) : l \in sub, r \in sub}

\* The wire envelope {"type": <discriminator>, "data": <payload>}.
Envelope(t, d) == [type |-> t, data |-> d]

\* The payload "" that True and False write.
EmptyData == [str |-> ""]

EqData(l, r) == [left |-> l, right |-> r]

\* The init() functions: operatorFromType maps a discriminator to the
\* constructor of the zero value of its variant.
operatorFromType ==
    [t \in {"TRUE", "FALSE", "EQBOOL"} |->
        CASE t = "TRUE" -> True
          [] t = "FALSE" -> False
          [] t = "EQBOOL" -> EqBool(Nil, Nil)]

\* Discriminators no init() registers.
Unregistered == {"AND", ""}

True_MarshalJSON == Envelope("TRUE", EmptyData)

False_MarshalJSON == Envelope("FALSE", EmptyData)

RECURSIVE MarshalJSON(_)
\* EqBool.MarshalJSON writing the operands into each other's slot.
EqBool_MarshalJSON_Swapped(eq) ==
    Envelope("EQBOOL", EqData(MarshalJSON(eq.Right), MarshalJSON(eq.Left)))

EqBool_MarshalJSON(eq) ==
    Envelope("EQBOOL", EqData(MarshalJSON(eq.Left), MarshalJSON(eq.Right)))

\* json.Marshal of an OperatorBool: the MarshalJSON of its dynamic type.
MarshalJSON(o) ==
    CASE o.op = "True" -> True_MarshalJSON
      [] o.op = "False" -> False_MarshalJSON
      [] o.op = "EqBool" -> EqBool_MarshalJSON(o)

\* The errors of the decoder, outermost first, as fmt.Errorf("...: %w") chains
\* them: each link keeps its message and the discriminator or slot it names.
ErrNotRegistered(t) == [msg |-> "not registered", names |-> t]

ErrCouldNotBeUnmarshalled(t) == [msg |-> "could not be unmarshalled", names |-> t]

ErrUnableToInstantiate(slot) == [msg |-> "unable to instantiate", names |-> slot]

RECURSIVE unmarshalOperatorBool(_)
RECURSIVE UnmarshalJSON(_, _)

\* EqBool.UnmarshalJSON assigning the right operand without looking at its error.
EqBool_UnmarshalJSON_RightUnchecked(eq, b) ==
    LET left == unmarshalOperatorBool(b.left)
    IN  IF left.err # NoErrors
        THEN [recv |-> eq, err |-> <<ErrUnableToInstantiate("Left")>> \o left.err]
        ELSE [recv |-> [eq EXCEPT !.Left = left.op,
                                  !.Right = unmarshalOperatorBool(b.right).op],
              err  |-> NoErrors]

\* EqBool.UnmarshalJSON reporting every operand failure as one of the Left.
EqBool_UnmarshalJSON_AlwaysLeft(eq, b) ==
    LET left == unmarshalOperatorBool(b.left)
    IN  IF left.err # NoErrors
        THEN [recv |-> eq, err |-> <<ErrUnableToInstantiate("Left")>> \o left.err]
        ELSE LET eq1   == [eq EXCEPT !.Left = left.op]
                 right == unmarshalOperatorBool(b.right)
             IN  IF right.err # NoErrors
                 THEN [recv |-> eq1,
                       err  |-> <<ErrUnableToInstantiate("Left")>> \o right.err]
                 ELSE [recv |-> [eq1 EXCEPT !.Right = right.op], err |-> NoErrors]

\* func (eq *EqBool) UnmarshalJSON(b []byte) error: the receiver after the
\* call and the error.  A failing Left returns before Right is looked at.
EqBool_UnmarshalJSON(eq, b) ==
    LET left == unmarshalOperatorBool(b.left)
    IN  IF left.err # NoErrors
        THEN [recv |-> eq, err |-> <<ErrUnableToInstantiate("Left")>> \o left.err]
        ELSE LET eq1   == [eq EXCEPT !.Left = left.op]
                 right == unmarshalOperatorBool(b.right)
             IN  IF right.err # NoErrors
                 THEN [recv |-> eq1,
                       err  |-> <<ErrUnableToInstantiate("Right")>> \o right.err]
                 ELSE [recv |-> [eq1 EXCEPT !.Right = right.op], err |-> NoErrors]

\* True and False ignore their payload.
True_UnmarshalJSON(t, b) == [recv |-> t, err |-> NoErrors]

False_UnmarshalJSON(f, b) == [recv |-> f, err |-> NoErrors]

\* json.Unmarshal(_op.Data, op): the UnmarshalJSON of op's dynamic type.
UnmarshalJSON(o, b) ==
    CASE o.op = "True" -> True_UnmarshalJSON(o, b)
      [] o.op = "False" -> False_UnmarshalJSON(o, b)
      [] o.op = "EqBool" -> EqBool_UnmarshalJSON(o, b)

\* func unmarshalOperatorBool(jsonBytes []byte) (OperatorBool, error)
unmarshalOperatorBool(j) ==
    IF j.type \notin DOMAIN operatorFromType
    THEN [op |-> Nil, err |-> <<ErrNotRegistered(j.type)>>]
    ELSE LET op == operatorFromType[j.type]
             r  == UnmarshalJSON(op, j.data)
         IN  IF r.err # NoErrors
             THEN [op |-> Nil, err |-> <<ErrCouldNotBeUnmarshalled(j.type)>> \o r.err]
             ELSE [op |-> r.recv, err |-> NoErrors]

\* The positions of the nodes of a wire tree, as paths of operand slots.
RECURSIVE Positions(_)
Positions(j) ==
    IF "left" \in DOMAIN j.data
    THEN {<<>>} \cup {<<"left">> \o p : p \in Positions(j.data.left)}
                \cup {<<"right">> \o p : p \in Positions(j.data.right)}
    ELSE {<<>>}

\* The wire tree with the discriminator of the node at position p replaced.
RECURSIVE WithTypeAt(_, _, _)
WithTypeAt(j, p, t) ==
    IF p = <<>> THEN [j EXCEPT !.type = t]
    ELSE IF Head(p) = "left"
         THEN [j EXCEPT !.data.left = WithTypeAt(j.data.left, Tail(p), t)]
         ELSE [j EXCEPT !.data.right = WithTypeAt(j.data.right, Tail(p), t)]

RECURSIVE TypeAt(_, _)
TypeAt(j, p) ==
    IF p = <<>> THEN j.type
    ELSE IF Head(p) = "left" THEN TypeAt(j.data.left, Tail(p))
         ELSE TypeAt(j.data.right, Tail(p))

InitCodec ==
    /\ component = "codec"
    /\ storageClients = Nil
    /\ gcsClient = Nil
    /\ faithful = Nil
    /\ database = Nil
    /\ registry = Nil
    /\ procs = Nil
    /\ evaluated = Nil
    /\ repoCalls = Nil
    /\ ctx = Nil
    /\ results = Nil
    /\ allErrs = Nil
    /\ stack = Nil
    /\ pc = "built"
    /\ tree \in OperatorTrees(MaxDepth)
    /\ jsonBytes = Nil
    /\ tamperedAt = Nil
    /\ decoded = Nil
    /\ arguments = Nil
    /\ evaluation = Nil
    /\ rootName = ""
    /\ path = <<>>
    /\ calls = 0
    /\ field = Nil

\* json.Marshal(tree)
Marshal ==
    /\ component = "codec"
    /\ pc = "built"
    /\ jsonBytes' = MarshalJSON(tree)
    /\ pc' = "encoded"
    /\ UNCHANGED <<component, storageClients, gcsClient, faithful, database, registry, procs, evaluated, repoCalls, ctx, results, allErrs, stack, tree, tamperedAt, decoded, arguments, evaluation,
                   rootName, path, calls, field>>

\* The stored blob names, at one node, an operator this build does not register.
Tamper ==
    /\ component = "codec"
    /\ pc = "encoded"
    /\ tamperedAt = Nil
    /\ \E p \in Positions(jsonBytes), t \in Unregistered :
          /\ jsonBytes' = WithTypeAt(jsonBytes, p, t)
          /\ tamperedAt' = [at |-> p]
    /\ UNCHANGED <<component, storageClients, gcsClient, faithful, database, registry, procs, evaluated, repoCalls, ctx, results, allErrs, stack, pc, tree, decoded, arguments, evaluation,
                   rootName, path, calls, field>>

\* unmarshalOperatorBool(jsonBytes)
Unmarshal ==
    /\ component = "codec"
    /\ pc = "encoded"
    /\ decoded' = unmarshalOperatorBool(jsonBytes)
    /\ pc' = "decoded"
    /\ UNCHANGED <<component, storageClients, gcsClient, faithful, database, registry, procs, evaluated, repoCalls, ctx, results, allErrs, stack, tree, jsonBytes, tamperedAt, arguments, evaluation,
                   rootName, path, calls, field>>

NextCodec == Marshal \/ Tamper \/ Unmarshal

SpecCodec == InitCodec /\ [][NextCodec]_vars

\* C1: registry failure isolation.  When exactly one node of the encoded tree
\* carries an unregistered discriminator, unmarshalOperatorBool on the root
\* returns no operator at all (nil, never a partial tree) and an error whose
\* chain ends in the "not registered" error naming that discriminator.
RegistryFailureIsolation ==
    (component = "codec" /\ pc = "decoded" /\ tamperedAt # Nil) =>
        /\ decoded.op = Nil
        /\ decoded.err # NoErrors
        /\ decoded.err[Len(decoded.err)]
              = ErrNotRegistered(TypeAt(jsonBytes, tamperedAt.at))

\* An unregistered node two levels below the root, in a right operand, has
\* been decoded.
UnregisteredDeepNodeDecoded ==
    /\ component = "codec"
    /\ pc = "decoded"
    /\ tamperedAt # Nil
    /\ Len(tamperedAt.at) = MaxDepth
    /\ tamperedAt.at[1] = "right"
    /\ decoded.op = Nil

\* C2: round trip.  Decoding the encoding of a tree of True, False and EqBool
\* succeeds and yields the same discriminator at every node and the same
\* left/right operand structure.
RoundTrip ==
    (component = "codec" /\ pc = "decoded" /\ tamperedAt = Nil) =>
        /\ decoded.err = NoErrors
        /\ decoded.op = tree

\* A nested tree whose two operands differ has been encoded and decoded.
NestedTreeRoundTripped ==
    /\ component = "codec"
    /\ pc = "decoded"
    /\ tamperedAt = Nil
    /\ tree.op = "EqBool"
    /\ tree.Left.op = "EqBool"
    /\ tree.Right.op = "False"
    /\ decoded.op = tree

-----------------------------------------------------------------------------
(***************************************************************************)
(* Values and errors of the evaluators (package evaluate, models/ast)      *)
(***************************************************************************)

\* A Go value of dynamic type string, bool, int64, float64, time.Time or
\* []any.  An int64 is hi*2^53 + lo; a float64 is hi*2^53 + lo + nano*1e-9.
StringV(s) == [kind |-> "string", val |-> s]

BoolV(b) == [kind |-> "bool", val |-> b]

IntV(hi, lo) == [kind |-> "int", val |-> [hi |-> hi, lo |-> lo]]

FloatV(hi, lo, nano) == [kind |-> "float", val |-> [hi |-> hi, lo |-> lo, nano |-> nano]]

TimeV(t) == [kind |-> "time", val |-> t]

ListV(l) == [kind |-> "list", val |-> l]

NanoPerUnit == 10 ^ 9

\* The sentinel errors of models/ast, with the named argument an error points at.
Err(kind) == [kind |-> kind, argument |-> ""]

ArgErr(kind, argument) == [kind |-> kind, argument |-> argument]

ErrArgumentInvalidType == Err("ArgumentInvalidType")

ErrRuntimeExpression == Err("RuntimeExpression")

ErrWrongNumberOfArgument == Err("WrongNumberOfArgument")

ErrMissingNamedArgument(name) == ArgErr("MissingNamedArgument", name)

\* What an adapter returns: (value, error).
Adapted(v) == [val |-> v, err |-> Nil]

NotAdapted(e) == [val |-> Nil, err |-> e]

\* MakeEvaluateResult(v) is (v, nil); MakeEvaluateError(err) is (nil, []error{err}).
\* via records the return statement that produced the result.
MakeEvaluateResult(v, via) == [value |-> v, errs |-> NoErrors, via |-> via]

MakeEvaluateError(e) == [value |-> Nil, errs |-> <<e>>, via |-> "error"]

adaptArgumentToString(a) ==
    IF a.kind = "string" THEN Adapted(a.val)
    ELSE NotAdapted(Err("ArgumentMustBeString"))

adaptArgumentToBool(a) ==
    IF a.kind = "bool" THEN Adapted(a.val)
    ELSE NotAdapted(Err("ArgumentMustBeBool"))

adaptArgumentToTime(a) ==
    IF a.kind = "time" THEN Adapted(a.val)
    ELSE NotAdapted(Err("ArgumentMustBeTime"))

\* An int64 as it is; a float64 with no fractional part as the int64 of its value.
promoteArgumentToInt64(a) ==
    CASE a.kind = "int" -> Adapted(a.val)
      [] a.kind = "float" /\ a.val.nano = 0 ->
            Adapted([hi |-> a.val.hi, lo |-> a.val.lo])
      [] OTHER -> NotAdapted(Err("ArgumentMustBeIntOrFloat"))

\* float64(i): exact up to 2^53; between 2^53 and 2^54 the nearest multiple of
\* two, a tie going to the even mantissa.
Float64OfInt64(i) ==
    IF i.hi = 1 /\ i.lo > 0 /\ i.lo % 2 = 1
    THEN [hi |-> 1,
          lo |-> IF ((i.lo - 1) \div 2) % 2 = 0 THEN i.lo - 1 ELSE i.lo + 1,
          nano |-> 0]
    ELSE [hi |-> i.hi, lo |-> i.lo, nano |-> 0]

promoteArgumentToFloat64(a) ==
    CASE a.kind = "int" -> Adapted(Float64OfInt64(a.val))
      [] a.kind = "float" -> Adapted(a.val)
      [] OTHER -> NotAdapted(Err("ArgumentMustBeIntOrFloat"))

\* filterNilErrors(errs...): the non-nil errors, in order.
filterNilErrors(errs) == SelectSeq(errs, LAMBDA e : e # Nil)

\* The adapter functions Go passes by value, by name.
CallAdapter(adapter, a) ==
    CASE adapter = "adaptArgumentToString" -> adaptArgumentToString(a)
      [] adapter = "adaptArgumentToBool" -> adaptArgumentToBool(a)
      [] adapter = "promoteArgumentToInt64" -> promoteArgumentToInt64(a)
      [] adapter = "promoteArgumentToFloat64" -> promoteArgumentToFloat64(a)
      [] adapter = "adaptArgumentToTime" -> adaptArgumentToTime(a)

adaptLeftAndRight(left, right, adapter) ==
    [left  |-> CallAdapter(adapter, left).val,
     right |-> CallAdapter(adapter, right).val,
     errs  |-> filterNilErrors(<<CallAdapter(adapter, left).err,
                                 CallAdapter(adapter, right).err>>)]

leftAndRight(args) ==
    IF Len(args) # 2
    THEN [left |-> Nil, right |-> Nil, err |-> ErrWrongNumberOfArgument]
    ELSE [left |-> args[1], right |-> args[2], err |-> Nil]

-----------------------------------------------------------------------------
(***************************************************************************)
(* Equal (src/usecases/ast_eval/evaluate/eval_equal.go)                    *)
(***************************************************************************)

\* const floatEqualityThreshold = 1e-8, in units of 1e-9.
floatEqualityThreshold == 10

Abs(n) == IF n < 0 THEN -n ELSE n

\* The comparison with <= in place of <.
FloatsWithinThreshold_NonStrict(left, right) ==
    /\ left.hi = right.hi
    /\ left.lo - right.lo \in -1..1
    /\ Abs((left.lo - right.lo) * NanoPerUnit + (left.nano - right.nano))
          <= floatEqualityThreshold

\* math.Abs(left-right) < floatEqualityThreshold on two float64.
FloatsWithinThreshold(left, right) ==
    /\ left.hi = right.hi
    /\ left.lo - right.lo \in -1..1
    /\ Abs((left.lo - right.lo) * NanoPerUnit + (left.nano - right.nano))
          < floatEqualityThreshold

\* Equal.Evaluate without the timestamp step.
Equal_Evaluate_NoTimeStep(args) ==
    LET lr    == leftAndRight(args.Args)
        asStr == adaptLeftAndRight(lr.left, lr.right, "adaptArgumentToString")
        asBoo == adaptLeftAndRight(lr.left, lr.right, "adaptArgumentToBool")
        asInt == adaptLeftAndRight(lr.left, lr.right, "promoteArgumentToInt64")
        asFlo == adaptLeftAndRight(lr.left, lr.right, "promoteArgumentToFloat64")
    IN  IF lr.err # Nil THEN MakeEvaluateError(lr.err)
        ELSE IF Len(asStr.errs) = 0
        THEN MakeEvaluateResult(BoolV(asStr.left = asStr.right), "string")
        ELSE IF Len(asBoo.errs) = 0
        THEN MakeEvaluateResult(BoolV(asBoo.left = asBoo.right), "bool")
        ELSE IF Len(asInt.errs) = 0
        THEN MakeEvaluateResult(BoolV(asInt.left = asInt.right), "int")
        ELSE IF Len(asFlo.errs) = 0
        THEN MakeEvaluateResult(
                 BoolV(FloatsWithinThreshold(asFlo.left, asFlo.right)), "float")
        ELSE MakeEvaluateError(ErrArgumentInvalidType)

\* Equal.Evaluate trying the float step before the integer step.
Equal_Evaluate_FloatBeforeInt(args) ==
    LET lr    == leftAndRight(args.Args)
        asStr == adaptLeftAndRight(lr.left, lr.right, "adaptArgumentToString")
        asBoo == adaptLeftAndRight(lr.left, lr.right, "adaptArgumentToBool")
        asInt == adaptLeftAndRight(lr.left, lr.right, "promoteArgumentToInt64")
        asFlo == adaptLeftAndRight(lr.left, lr.right, "promoteArgumentToFloat64")
        asTim == adaptLeftAndRight(lr.left, lr.right, "adaptArgumentToTime")
    IN  IF lr.err # Nil THEN MakeEvaluateError(lr.err)
        ELSE IF Len(asStr.errs) = 0
        THEN MakeEvaluateResult(BoolV(asStr.left = asStr.right), "string")
        ELSE IF Len(asBoo.errs) = 0
        THEN MakeEvaluateResult(BoolV(asBoo.left = asBoo.right), "bool")
        ELSE IF Len(asFlo.errs) = 0
        THEN MakeEvaluateResult(
                 BoolV(FloatsWithinThreshold(asFlo.left, asFlo.right)), "float")
        ELSE IF Len(asInt.errs) = 0
        THEN MakeEvaluateResult(BoolV(asInt.left = asInt.right), "int")
        ELSE IF Len(asTim.errs) = 0
        THEN MakeEvaluateResult(BoolV(asTim.left = asTim.right), "time")
        ELSE MakeEvaluateError(ErrArgumentInvalidType)

\* func (f Equal) Evaluate(ctx, arguments) (any, []error)
Equal_Evaluate(args) ==
    LET lr    == leftAndRight(args.Args)
        asStr == adaptLeftAndRight(lr.left, lr.right, "adaptArgumentToString")
        asBoo == adaptLeftAndRight(lr.left, lr.right, "adaptArgumentToBool")
        asInt == adaptLeftAndRight(lr.left, lr.right, "promoteArgumentToInt64")
        asFlo == adaptLeftAndRight(lr.left, lr.right, "promoteArgumentToFloat64")
        asTim == adaptLeftAndRight(lr.left, lr.right, "adaptArgumentToTime")
    IN  IF lr.err # Nil THEN MakeEvaluateError(lr.err)
        ELSE IF Len(asStr.errs) = 0
        THEN MakeEvaluateResult(BoolV(asStr.left = asStr.right), "string")
        ELSE IF Len(asBoo.errs) = 0
        THEN MakeEvaluateResult(BoolV(asBoo.left = asBoo.right), "bool")
        ELSE IF Len(asInt.errs) = 0
        THEN MakeEvaluateResult(BoolV(asInt.left = asInt.right), "int")
        ELSE IF Len(asFlo.errs) = 0
        THEN MakeEvaluateResult(
                 BoolV(FloatsWithinThreshold(asFlo.left, asFlo.right)), "float")
        ELSE IF Len(asTim.errs) = 0
        THEN MakeEvaluateResult(BoolV(asTim.left = asTim.right), "time")
        ELSE MakeEvaluateError(ErrArgumentInvalidType)

\* The operands Equal is tried on: strings, booleans, small and large integers
\* (2^53 and 2^53+1), floats on both sides of the tolerance, timestamps, a
\* list and nil.
EqualOperands ==
    {StringV("a"), StringV("b"), BoolV(TRUE), BoolV(FALSE),
     IntV(0, 1), IntV(0, 3), IntV(1, 0), IntV(1, 1),
     FloatV(0, 0, 0), FloatV(0, 0, 5), FloatV(0, 0, 10),
     FloatV(0, 1, 0), FloatV(0, 1, 5), FloatV(0, 1, 100000),
     FloatV(0, 3, 0), FloatV(1, 0, 0),
     TimeV(1), TimeV(2), ListV(<<"a">>), Nil}

Arguments(args, named) == [Args |-> args, NamedArgs |-> named]

NoNamedArgs == [n \in {} |-> Nil]

InitEqual ==
    /\ component = "equal"
    /\ storageClients = Nil
    /\ gcsClient = Nil
    /\ faithful = Nil
    /\ database = Nil
    /\ registry = Nil
    /\ procs = Nil
    /\ evaluated = Nil
    /\ repoCalls = Nil
    /\ ctx = Nil
    /\ results = Nil
    /\ allErrs = Nil
    /\ stack = Nil
    /\ pc = "ready"
    /\ \E args \in [1..2 -> EqualOperands]
                     \cup {<<v>> : v \in EqualOperands}
                     \cup {<<v, v, v>> : v \in EqualOperands} :
          arguments = Arguments(args, NoNamedArgs)
    /\ evaluation = Nil
    /\ tree = Nil
    /\ jsonBytes = Nil
    /\ tamperedAt = Nil
    /\ decoded = Nil
    /\ rootName = ""
    /\ path = <<>>
    /\ calls = 0
    /\ field = Nil

EvaluateEqual ==
    /\ component = "equal"
    /\ pc = "ready"
    /\ evaluation' = Equal_Evaluate(arguments)
    /\ pc' = "evaluated"
    /\ UNCHANGED <<component, storageClients, gcsClient, faithful, database, registry, procs, evaluated, repoCalls, ctx, results, allErrs, stack, tree, jsonBytes, tamperedAt, decoded, arguments,
                   rootName, path, calls, field>>

NextEqual == EvaluateEqual

SpecEqual == InitEqual /\ [][NextEqual]_vars

\* The two operands of a finished call of Equal on two operands.
EqualEvaluatedOnTwo ==
    component = "equal" /\ pc = "evaluated" /\ Len(arguments.Args) = 2

\* The priority ladder of the representations, and which values each accepts.
EqualLadder == <<"string", "bool", "int", "float", "time">>

CoercesInto(v, rep) ==
    CASE rep = "string" -> v.kind = "string"
      [] rep = "bool" -> v.kind = "bool"
      [] rep = "int" -> v.kind = "int" \/ (v.kind = "float" /\ v.val.nano = 0)
      [] rep = "float" -> v.kind \in {"int", "float"}
      [] rep = "time" -> v.kind = "time"

SharedRepresentations(l, r) ==
    {i \in DOMAIN EqualLadder :
        CoercesInto(l, EqualLadder[i]) /\ CoercesInto(r, EqualLadder[i])}

\* C3: Equal uses the first representation of the ladder string, boolean,
\* integer, float, timestamp that both operands coerce into and returns a
\* boolean, the equality of the coerced values (for strings, booleans and
\* timestamps: of the values themselves); when no representation accepts both
\* operands it returns no value and one ArgumentInvalidType error.
EqualUsesFirstSharedRepresentation ==
    EqualEvaluatedOnTwo =>
        LET l      == arguments.Args[1]
            r      == arguments.Args[2]
            shared == SharedRepresentations(l, r)
        IN  IF shared = {}
            THEN /\ evaluation.value = Nil
                 /\ evaluation.errs = <<ErrArgumentInvalidType>>
            ELSE LET first == CHOOSE i \in shared : \A j \in shared : i <= j
                 IN  /\ evaluation.errs = NoErrors
                     /\ evaluation.via = EqualLadder[first]
                     /\ evaluation.value \in {BoolV(TRUE), BoolV(FALSE)}
                     /\ EqualLadder[first] \in {"string", "bool", "time"}
                           => evaluation.value = BoolV(l.val = r.val)

\* Equal("a", true) has failed.
EqualStringWithBoolFailed ==
    /\ EqualEvaluatedOnTwo
    /\ arguments.Args = <<StringV("a"), BoolV(TRUE)>>
    /\ evaluation.errs = <<ErrArgumentInvalidType>>

\* The integer an operand that promotes to an integer stands for.
IntegerOf(v) == [hi |-> v.val.hi, lo |-> v.val.lo]

\* C4: integer equality is attempted before float equality.  Two operands
\* that both promote to integers (an integer, or a float without fractional
\* part) are compared through the integer step, exactly: the result is true
\* exactly when they stand for the same integer, also beyond 2^53 where
\* float64 cannot tell neighbours apart.  Equal(3, 3.0) is true.
EqualIntegerBeforeFloat ==
    EqualEvaluatedOnTwo =>
        LET l == arguments.Args[1]
            r == arguments.Args[2]
        IN  /\ (CoercesInto(l, "int") /\ CoercesInto(r, "int")) =>
                  /\ evaluation.via = "int"
                  /\ evaluation.value = BoolV(IntegerOf(l) = IntegerOf(r))
            /\ arguments.Args = <<IntV(0, 3), FloatV(0, 3, 0)>> =>
                  evaluation.value = BoolV(TRUE)

\* Equal(3, 3.0) has returned true.
EqualThreeWithThreePointZero ==
    /\ EqualEvaluatedOnTwo
    /\ arguments.Args = <<IntV(0, 3), FloatV(0, 3, 0)>>
    /\ evaluation.value = BoolV(TRUE)
    /\ evaluation.via = "int"

\* The number v stands for, moved by d units of 1e-9.
NumberOf(v) ==
    [hi |-> v.val.hi, lo |-> v.val.lo,
     nano |-> IF v.kind = "float" THEN v.val.nano ELSE 0]

MovedBy(n, d) ==
    CASE n.nano + d < 0 -> [n EXCEPT !.lo = @ - 1, !.nano = @ + d + NanoPerUnit]
      [] n.nano + d >= NanoPerUnit ->
            [n EXCEPT !.lo = @ + 1, !.nano = @ + d - NanoPerUnit]
      [] OTHER -> [n EXCEPT !.nano = @ + d]

\* C5: when Equal compares as floats the result is true exactly when the two
\* values differ by strictly less than 1e-8 (by at most 9 units of 1e-9 on
\* the grid of the operands): Equal(1.0, 1.000000005) is true, Equal(1.0,
\* 1.0001) is false, and two values exactly 1e-8 apart are not equal.
EqualFloatTolerance ==
    EqualEvaluatedOnTwo =>
        LET l == arguments.Args[1]
            r == arguments.Args[2]
        IN  /\ evaluation.via = "float" =>
                  evaluation.value =
                      BoolV(\E d \in -9..9 : MovedBy(NumberOf(r), d) = NumberOf(l))
            /\ arguments.Args = <<FloatV(0, 1, 0), FloatV(0, 1, 5)>> =>
                  evaluation.value = BoolV(TRUE)
            /\ arguments.Args = <<FloatV(0, 1, 0), FloatV(0, 1, 100000)>> =>
                  evaluation.value = BoolV(FALSE)

\* Equal(1.0, 1.000000005) has been compared as floats and returned true.
EqualWithinToleranceCompared ==
    /\ EqualEvaluatedOnTwo
    /\ arguments.Args = <<FloatV(0, 1, 0), FloatV(0, 1, 5)>>
    /\ evaluation.via = "float"
    /\ evaluation.value = BoolV(TRUE)

-----------------------------------------------------------------------------
(***************************************************************************)
(* The data model (src/app/data_model.go)                                  *)
(***************************************************************************)

\* type Field struct { DataType }; DataType is Bool (the zero value), Int,
\* Float, String or Timestamp.
Field(t) == [DataType |-> t]

LinkToSingle(linked, parent, child) ==
    [LinkedTableName |-> linked, ParentFieldName |-> parent, ChildFieldName |-> child]

Table(fields, links) == [Fields |-> fields, LinksToSingle |-> links]

\* The zero values a Go map lookup returns for an absent key.
ZeroField == Field("Bool")

ZeroLinkToSingle == LinkToSingle("", "", "")

NoFields == [n \in {} |-> ZeroField]

NoLinks == [n \in {} |-> ZeroLinkToSingle]

ZeroTable == Table(NoFields, NoLinks)

\* The data model the operations run against: orders link to their customer;
\* customers link to themselves (referrer) and back to orders (last_order),
\* so the link graph has a self-link and a cycle.
OrdersTable ==
    Table([n \in {"status", "amount", "count", "paid", "created_at"} |->
              CASE n = "status" -> Field("String")
                [] n = "amount" -> Field("Float")
                [] n = "count" -> Field("Int")
                [] n = "paid" -> Field("Bool")
                [] n = "created_at" -> Field("Timestamp")],
          [n \in {"customer"} |-> LinkToSingle("customers", "object_id", "customer_id")])

CustomersTable ==
    Table([n \in {"name", "amount"} |->
              CASE n = "name" -> Field("String")
                [] n = "amount" -> Field("Int")],
          [n \in {"referrer", "last_order"} |->
              CASE n = "referrer" -> LinkToSingle("customers", "object_id", "referrer_id")
                [] n = "last_order" -> LinkToSingle("orders", "object_id", "order_id")])

DataModel ==
    [Tables |-> [n \in {"orders", "customers"} |->
                    IF n = "orders" THEN OrdersTable ELSE CustomersTable]]

-----------------------------------------------------------------------------
(***************************************************************************)
(* Filter (src/usecases/ast_eval/evaluate/eval_equal.go, FilterEvaluator)  *)
(***************************************************************************)

DataTypes == {"Bool", "Int", "Float", "String", "Timestamp"}

OrderingOperators ==
    {"FILTER_GREATER", "FILTER_GREATER_OR_EQUAL", "FILTER_LESSER",
     "FILTER_LESSER_OR_EQUAL"}

ListOperators == {"FILTER_IS_IN_LIST", "FILTER_IS_NOT_IN_LIST"}

StringOnlyOperators ==
    ListOperators \cup {"FILTER_STARTS_WITH", "FILTER_ENDS_WITH", "FILTER_FUZZY_MATCH"}

\* The enumeration ast.FilterOperator.
FilterOperators ==
    {"FILTER_EQUAL", "FILTER_NOT_EQUAL", "FILTER_IS_EMPTY", "FILTER_IS_NOT_EMPTY"}
        \cup OrderingOperators \cup StringOnlyOperators

\* The table with the rows of the ordering operators copied from FILTER_EQUAL.
validTypeForFilterOperators_OrderingAsEqual ==
    [o \in FilterOperators |->
        IF o \in StringOnlyOperators THEN {"String"} ELSE DataTypes]

\* var validTypeForFilterOperators = map[ast.FilterOperator][]models.DataType
validTypeForFilterOperators ==
    [o \in FilterOperators |->
        CASE o \in {"FILTER_EQUAL", "FILTER_NOT_EQUAL", "FILTER_IS_EMPTY",
                    "FILTER_IS_NOT_EMPTY"} -> DataTypes
          [] o \in OrderingOperators -> {"Int", "Float", "String", "Timestamp"}
          [] o \in StringOnlyOperators -> {"String"}]

\* AdaptNamedArgument(namedArgs, name, adapter): the adapted argument, or an
\* error pointing at the argument.
AdaptNamedArgument(namedArgs, name, adapter) ==
    IF name \notin DOMAIN namedArgs THEN NotAdapted(ErrMissingNamedArgument(name))
    ELSE IF CallAdapter(adapter, namedArgs[name]).err # Nil
         THEN NotAdapted(ArgErr(CallAdapter(adapter, namedArgs[name]).err.kind, name))
         ELSE CallAdapter(adapter, namedArgs[name])

\* getFieldType(dataModel, tableName, fieldName)
getFieldType(dm, tableName, fieldName) ==
    IF tableName \notin DOMAIN dm.Tables
    THEN NotAdapted(Err("TableNotInDataModel"))
    ELSE IF fieldName \notin DOMAIN dm.Tables[tableName].Fields
         THEN NotAdapted(Err("FieldNotInDataModel"))
         ELSE Adapted(dm.Tables[tableName].Fields[fieldName].DataType)

\* The normal form of a string of a list value.
NormalizedString(str) == IF str = "Abc" THEN "abc" ELSE str

\* adaptArgumentToListOfStrings(value): a list whose elements are all strings,
\* as the list of their normal forms.
adaptArgumentToListOfStrings(a) ==
    IF a.kind = "list" /\ \A i \in DOMAIN a.val : a.val[i].kind = "string"
    THEN Adapted(ListV([i \in DOMAIN a.val |-> NormalizedString(a.val[i].val)]))
    ELSE NotAdapted(Err("ArgumentMustBeList"))

\* promoteArgumentToDataType(value, fieldType): the adapter of the data type.
promoteArgumentToDataType(a, t) ==
    LET r == CASE t = "Bool" -> adaptArgumentToBool(a)
               [] t = "Int" -> promoteArgumentToInt64(a)
               [] t = "Float" -> promoteArgumentToFloat64(a)
               [] t = "String" -> adaptArgumentToString(a)
               [] t = "Timestamp" -> adaptArgumentToTime(a)
        k == CASE t = "Bool" -> "bool" [] t = "Int" -> "int" [] t = "Float" -> "float"
               [] t = "String" -> "string" [] t = "Timestamp" -> "time"
    IN  IF r.err # Nil THEN r ELSE Adapted([kind |-> k, val |-> r.val])

\* ast.Filter{TableName, FieldName, Operator, Value}
Filter(tableName, fieldName, operator, value) ==
    [kind |-> "filter",
     val  |-> [TableName |-> tableName, FieldName |-> fieldName,
               Operator |-> operator, Value |-> value]]

\* The validation without the check of the field's type against the table.
FilterValidation_NoTypeCheck(dm, namedArgs) ==
    LET tableName == AdaptNamedArgument(namedArgs, "tableName", "adaptArgumentToString")
        fieldName == AdaptNamedArgument(namedArgs, "fieldName", "adaptArgumentToString")
        operator  == AdaptNamedArgument(namedArgs, "operator", "adaptArgumentToString")
        errs      == filterNilErrors(<<tableName.err, fieldName.err, operator.err>>)
        fieldType == getFieldType(dm, tableName.val, fieldName.val)
    IN  IF Len(errs) > 0 THEN [ok |-> FALSE, errs |-> errs]
        ELSE IF fieldType.err # Nil
        THEN [ok |-> FALSE, errs |-> <<ArgErr(fieldType.err.kind, "fieldName")>>]
        ELSE IF operator.val \notin DOMAIN validTypeForFilterOperators
        THEN [ok |-> FALSE, errs |-> <<ArgErr("RuntimeExpression", "operator")>>]
        ELSE [ok |-> TRUE, tableName |-> tableName.val, fieldName |-> fieldName.val,
              operator |-> operator.val, fieldType |-> fieldType.val]

\* FilterEvaluator.Evaluate, lines 80 to 114: the three named arguments, the
\* field's type, the operator and the operator's valid types.
FilterValidation(dm, namedArgs) ==
    LET tableName == AdaptNamedArgument(namedArgs, "tableName", "adaptArgumentToString")
        fieldName == AdaptNamedArgument(namedArgs, "fieldName", "adaptArgumentToString")
        operator  == AdaptNamedArgument(namedArgs, "operator", "adaptArgumentToString")
        errs      == filterNilErrors(<<tableName.err, fieldName.err, operator.err>>)
        fieldType == getFieldType(dm, tableName.val, fieldName.val)
    IN  IF Len(errs) > 0 THEN [ok |-> FALSE, errs |-> errs]
        ELSE IF fieldType.err # Nil
        THEN [ok |-> FALSE, errs |-> <<ArgErr(fieldType.err.kind, "fieldName")>>]
        ELSE IF operator.val \notin DOMAIN validTypeForFilterOperators
        THEN [ok |-> FALSE, errs |-> <<ArgErr("RuntimeExpression", "operator")>>]
        ELSE IF fieldType.val \notin validTypeForFilterOperators[operator.val]
        THEN [ok |-> FALSE, errs |-> <<ArgErr("ArgumentInvalidType", "fieldName")>>]
        ELSE [ok |-> TRUE, tableName |-> tableName.val, fieldName |-> fieldName.val,
              operator |-> operator.val, fieldType |-> fieldType.val]

\* The promotion without the case of a float for an integer field.
FilterPromotion_NoFloatCase(operator, fieldType, value) ==
    CASE operator = "FILTER_FUZZY_MATCH" -> Adapted(value)
      [] operator # "FILTER_FUZZY_MATCH" /\ operator \in ListOperators ->
            adaptArgumentToListOfStrings(value)
      [] OTHER -> promoteArgumentToDataType(value, fieldType)

\* FilterEvaluator.Evaluate, lines 128 to 144: the switch that promotes the value.
FilterPromotion(operator, fieldType, value) ==
    CASE operator = "FILTER_FUZZY_MATCH" -> Adapted(value)
      [] operator # "FILTER_FUZZY_MATCH" /\ fieldType = "Int" /\ value.kind = "float" ->
            Adapted(value)
      [] operator # "FILTER_FUZZY_MATCH" /\ ~(fieldType = "Int" /\ value.kind = "float")
           /\ operator \in ListOperators ->
            adaptArgumentToListOfStrings(value)
      [] OTHER -> promoteArgumentToDataType(value, fieldType)

\* Go's arguments.NamedArgs["value"]: nil when the key is absent.
NamedValue(namedArgs) ==
    IF "value" \in DOMAIN namedArgs THEN namedArgs["value"] ELSE Nil

\* Evaluate promoting the value without the check for a nil value.
FilterEvaluator_Evaluate_NoNilCheck(dm, args) ==
    LET v == FilterValidation(dm, args.NamedArgs)
        value == NamedValue(args.NamedArgs)
        promoted == FilterPromotion(v.operator, v.fieldType, value)
    IN  IF ~v.ok THEN [value |-> Nil, errs |-> v.errs, via |-> "error"]
        ELSE IF promoted.err # Nil
        THEN MakeEvaluateError(ArgErr("ArgumentInvalidType", "value"))
        ELSE MakeEvaluateResult(
                 Filter(v.tableName, v.fieldName, v.operator, promoted.val), "value")

\* func (f FilterEvaluator) Evaluate(ctx, arguments) (any, []error)
FilterEvaluator_Evaluate(dm, args) ==
    LET v == FilterValidation(dm, args.NamedArgs)
        value == NamedValue(args.NamedArgs)
        promoted == FilterPromotion(v.operator, v.fieldType, value)
    IN  IF ~v.ok THEN [value |-> Nil, errs |-> v.errs, via |-> "error"]
        ELSE IF value = Nil
        THEN MakeEvaluateResult(Filter(v.tableName, v.fieldName, v.operator, Nil), "nil")
        ELSE IF promoted.err # Nil
        THEN MakeEvaluateError(ArgErr("ArgumentInvalidType", "value"))
        ELSE MakeEvaluateResult(
                 Filter(v.tableName, v.fieldName, v.operator, promoted.val), "value")

\* The named arguments Filter is tried on.
FilterTableNames == {StringV("orders"), StringV("ghosts"), IntV(0, 1)}

FilterFieldNames ==
    {StringV("status"), StringV("amount"), StringV("count"), StringV("paid"),
     StringV("created_at"), StringV("missing"), BoolV(TRUE)}

FilterOperatorArgs ==
    {StringV(o) : o \in FilterOperators} \cup {StringV("FILTER_BOGUS"), IntV(0, 1)}

\* ast.FuzzyMatchOptions, the structured value of a fuzzy-match filter.
FuzzyMatchOptions == [kind |-> "fuzzy", val |-> [Algorithm |-> "ratio", Threshold |-> 1]]

FilterValues ==
    {StringV("Abc"), IntV(0, 100), FloatV(0, 100, 0), FloatV(0, 1, 5), BoolV(TRUE),
     TimeV(1), ListV(<<StringV("Abc"), StringV("b")>>),
     ListV(<<StringV("b"), IntV(0, 1)>>), FuzzyMatchOptions}

FilterNamedArgs ==
    {[n \in {"tableName", "fieldName", "operator"} |->
          CASE n = "tableName" -> t [] n = "fieldName" -> f [] n = "operator" -> o] :
        t \in FilterTableNames, f \in FilterFieldNames, o \in FilterOperatorArgs}
    \cup
    {[n \in {"tableName", "fieldName", "operator", "value"} |->
          CASE n = "tableName" -> t [] n = "fieldName" -> f [] n = "operator" -> o
            [] n = "value" -> v] :
        t \in FilterTableNames, f \in FilterFieldNames, o \in FilterOperatorArgs,
        v \in FilterValues \cup {Nil}}
    \cup {[n \in {"fieldName"} |-> StringV("status")]}

InitFilter ==
    /\ component = "filter"
    /\ storageClients = Nil
    /\ gcsClient = Nil
    /\ faithful = Nil
    /\ database = Nil
    /\ registry = Nil
    /\ procs = Nil
    /\ evaluated = Nil
    /\ repoCalls = Nil
    /\ ctx = Nil
    /\ results = Nil
    /\ allErrs = Nil
    /\ stack = Nil
    /\ pc = "ready"
    /\ \E named \in FilterNamedArgs : arguments = Arguments(<<>>, named)
    /\ evaluation = Nil
    /\ tree = Nil
    /\ jsonBytes = Nil
    /\ tamperedAt = Nil
    /\ decoded = Nil
    /\ rootName = ""
    /\ path = <<>>
    /\ calls = 0
    /\ field = Nil

EvaluateFilter ==
    /\ component = "filter"
    /\ pc = "ready"
    /\ evaluation' = FilterEvaluator_Evaluate(DataModel, arguments)
    /\ pc' = "evaluated"
    /\ UNCHANGED <<component, storageClients, gcsClient, faithful, database, registry, procs, evaluated, repoCalls, ctx, results, allErrs, stack, tree, jsonBytes, tamperedAt, decoded, arguments,
                   rootName, path, calls, field>>

NextFilter == EvaluateFilter

SpecFilter == InitFilter /\ [][NextFilter]_vars

\* A finished call of Filter and what it was called with.
FilterEvaluated == component = "filter" /\ pc = "evaluated"

FilterArg(name) ==
    IF name \in DOMAIN arguments.NamedArgs THEN arguments.NamedArgs[name] ELSE Nil

FilterFieldKnown ==
    /\ FilterArg("tableName").kind = "string"
    /\ FilterArg("fieldName").kind = "string"
    /\ FilterArg("tableName").val \in DOMAIN DataModel.Tables
    /\ FilterArg("fieldName").val
          \in DOMAIN DataModel.Tables[FilterArg("tableName").val].Fields

FilterFieldType ==
    DataModel.Tables[FilterArg("tableName").val].Fields[FilterArg("fieldName").val].DataType

FilterOperatorKnown ==
    FilterArg("operator").kind = "string" /\ FilterArg("operator").val \in FilterOperators

\* What the static table is said to allow: no boolean field for an ordering
\* operator, only string fields for the list, prefix, suffix and fuzzy operators.
SaidToBeAllowed(operator, fieldType) ==
    /\ operator \in OrderingOperators => fieldType # "Bool"
    /\ operator \in StringOnlyOperators => fieldType = "String"

FilterPassesValidation ==
    /\ FilterFieldKnown
    /\ FilterOperatorKnown
    /\ SaidToBeAllowed(FilterArg("operator").val, FilterFieldType)

FilterFailedWith(kind) ==
    /\ evaluation.value = Nil
    /\ \E i \in DOMAIN evaluation.errs : evaluation.errs[i].kind = kind

\* C6 as stated: Filter with an ordering operator on a field declared string
\* fails with an ArgumentInvalidType error and returns no descriptor.
OrderingOnStringFieldFails ==
    (/\ FilterEvaluated
     /\ FilterFieldKnown
     /\ FilterOperatorKnown
     /\ FilterArg("operator").val \in OrderingOperators
     /\ FilterFieldType = "String") => FilterFailedWith("ArgumentInvalidType")

\* C6 as amended: Filter with an ordering operator on a field declared boolean
\* fails with an ArgumentInvalidType error on fieldName and returns no
\* descriptor; on a field declared string the ordering operators pass the
\* validation of the field type (no error points at fieldName).
OrderingOnBoolFieldFails ==
    (/\ FilterEvaluated
     /\ FilterFieldKnown
     /\ FilterOperatorKnown
     /\ FilterArg("operator").val \in OrderingOperators) =>
        /\ FilterFieldType = "Bool" =>
              /\ evaluation.value = Nil
              /\ evaluation.errs = <<ArgErr("ArgumentInvalidType", "fieldName")>>
        /\ FilterFieldType = "String" =>
              \A i \in DOMAIN evaluation.errs : evaluation.errs[i].argument # "fieldName"

\* Filter(orders, paid (boolean), greater) has been rejected.
OrderingOnBoolFieldRejected ==
    /\ FilterEvaluated
    /\ FilterArg("tableName") = StringV("orders")
    /\ FilterArg("fieldName") = StringV("paid")
    /\ FilterArg("operator") = StringV("FILTER_GREATER")
    /\ FilterFailedWith("ArgumentInvalidType")

\* C7: Filter returns a descriptor only if the table and the field are in the
\* data model, the operator is of the enumeration and the field's declared
\* type is allowed for the operator (ordering operators reject boolean
\* fields; is-in-list, is-not-in-list, starts-with, ends-with and fuzzy-match
\* accept only string fields); otherwise it returns errors and no descriptor.
FilterDescriptorOnlyIfAllowed ==
    FilterEvaluated =>
        /\ evaluation.value # Nil =>
              /\ FilterPassesValidation
              /\ evaluation.errs = NoErrors
              /\ evaluation.value.kind = "filter"
        /\ ~FilterPassesValidation =>
              /\ evaluation.value = Nil
              /\ evaluation.errs # NoErrors

\* Filter(orders, count (integer), is-in-list) has been rejected.
ListOperatorOnIntFieldRejected ==
    /\ FilterEvaluated
    /\ FilterArg("tableName") = StringV("orders")
    /\ FilterArg("fieldName") = StringV("count")
    /\ FilterArg("operator") = StringV("FILTER_IS_IN_LIST")
    /\ FilterArg("value") = ListV(<<StringV("Abc"), StringV("b")>>)
    /\ FilterFailedWith("ArgumentInvalidType")

\* The representation a declared type promotes to.
RepresentationOf(fieldType) ==
    CASE fieldType = "Bool" -> "bool" [] fieldType = "Int" -> "int"
      [] fieldType = "Float" -> "float" [] fieldType = "String" -> "string"
      [] fieldType = "Timestamp" -> "time"

\* The value v as a value of the representation rep it coerces into.
PromotedInto(v, rep) ==
    IF rep = "float" /\ v.kind = "int" THEN FloatV(v.val.hi, v.val.lo, 0)
    ELSE IF rep = "int" /\ v.kind = "float" THEN IntV(v.val.hi, v.val.lo)
    ELSE v

IsListOfStrings(v) ==
    v.kind = "list" /\ \A i \in DOMAIN v.val : v.val[i].kind = "string"

FilterReturned(value) ==
    /\ evaluation.errs = NoErrors
    /\ evaluation.value =
          Filter(FilterArg("tableName").val, FilterArg("fieldName").val,
                 FilterArg("operator").val, value)

\* C8: when Filter passes validation and a value is supplied, the descriptor
\* carries the value unchanged for fuzzy-match, unchanged for a float on an
\* integer field, as the list of the normal forms of its strings for
\* is-in-list and is-not-in-list, and otherwise promoted to the field's
\* declared type (greater on a float field with 100 carries 100.0); a value
\* that cannot be promoted gives an ArgumentInvalidType error and no descriptor.
FilterPromotesValue ==
    (FilterEvaluated /\ FilterPassesValidation /\ FilterArg("value") # Nil) =>
        LET operator  == FilterArg("operator").val
            fieldType == FilterFieldType
            value     == FilterArg("value")
        IN  /\ CASE operator = "FILTER_FUZZY_MATCH" -> FilterReturned(value)
                 [] operator # "FILTER_FUZZY_MATCH" /\ fieldType = "Int"
                      /\ value.kind = "float" -> FilterReturned(value)
                 [] operator \in ListOperators ->
                      IF IsListOfStrings(value)
                      THEN FilterReturned(
                               ListV([i \in DOMAIN value.val |->
                                         NormalizedString(value.val[i].val)]))
                      ELSE FilterFailedWith("ArgumentInvalidType")
                 [] OTHER ->
                      IF CoercesInto(value, RepresentationOf(fieldType))
                      THEN FilterReturned(PromotedInto(value, RepresentationOf(fieldType)))
                      ELSE FilterFailedWith("ArgumentInvalidType")
            /\ (/\ operator = "FILTER_GREATER"
                /\ FilterArg("fieldName") = StringV("amount")
                /\ value = IntV(0, 100)) => FilterReturned(FloatV(0, 100, 0))

\* Filter(orders, amount (float), greater, 100) has returned its descriptor.
GreaterOnFloatFieldPromoted ==
    /\ FilterEvaluated
    /\ FilterArg("tableName") = StringV("orders")
    /\ FilterArg("fieldName") = StringV("amount")
    /\ FilterArg("operator") = StringV("FILTER_GREATER")
    /\ FilterArg("value") = IntV(0, 100)
    /\ FilterReturned(FloatV(0, 100, 0))

\* C9: when Filter passes validation and no value is supplied, it returns the
\* descriptor of the given table, field and operator with a nil value and no
\* error, for every operator of the enumeration.
FilterWithoutValue ==
    (FilterEvaluated /\ FilterPassesValidation /\ FilterArg("value") = Nil) =>
        FilterReturned(Nil)

\* An ordering filter without value has returned a descriptor with a nil value.
OrderingWithoutValueReturned ==
    /\ FilterEvaluated
    /\ FilterArg("fieldName") = StringV("amount")
    /\ FilterArg("operator") = StringV("FILTER_LESSER")
    /\ "value" \notin DOMAIN arguments.NamedArgs
    /\ FilterReturned(Nil)

-----------------------------------------------------------------------------
(***************************************************************************)
(* FieldAt (src/app/data_model.go)                                         *)
(***************************************************************************)

\* Longest path FieldAt is called with.
MaxPath == 3

\* Go's map lookups dm.Tables[name], table.Fields[name] and
\* table.LinksToSingle[name]: the zero value when the key is absent.
TableNamed(dm, name) ==
    IF name \in DOMAIN dm.Tables THEN dm.Tables[name] ELSE ZeroTable

FieldNamed(table, name) ==
    IF name \in DOMAIN table.Fields THEN table.Fields[name] ELSE ZeroField

LinkNamed(table, name) ==
    IF name \in DOMAIN table.LinksToSingle THEN table.LinksToSingle[name]
    ELSE ZeroLinkToSingle

\* The names FieldAt is called with: the tables and a name of no table; the
\* links, the fields and a name of no link.
RootNames == {"orders", "customers", "ghosts"}

PathNames == {"customer", "referrer", "last_order", "missing_link", "name", "amount"}

Paths == UNION {[1..n -> PathNames] : n \in 0..MaxPath}

InitFieldAt ==
    /\ component = "fieldAt"
    /\ storageClients = Nil
    /\ gcsClient = Nil
    /\ faithful = Nil
    /\ database = Nil
    /\ registry = Nil
    /\ procs = Nil
    /\ evaluated = Nil
    /\ repoCalls = Nil
    /\ ctx = Nil
    /\ results = Nil
    /\ allErrs = Nil
    /\ stack = Nil
    /\ pc = "call"
    /\ rootName \in RootNames
    /\ path \in Paths
    /\ arguments = [rootName |-> rootName, path |-> path]
    /\ calls = 0
    /\ field = Nil
    /\ evaluation = Nil
    /\ tree = Nil
    /\ jsonBytes = Nil
    /\ tamperedAt = Nil
    /\ decoded = Nil

\* len(path) == 1: return currentRoot.Fields[path[0]]
FieldAtReturn ==
    /\ component = "fieldAt"
    /\ pc = "call"
    /\ Len(path) = 1
    /\ field' = FieldNamed(TableNamed(DataModel, rootName), path[1])
    /\ pc' = "returned"
    /\ UNCHANGED <<component, storageClients, gcsClient, faithful, database, registry, procs, evaluated, repoCalls, ctx, results, allErrs, stack, tree, jsonBytes, tamperedAt, decoded, arguments,
                   evaluation, rootName, path, calls>>

\* A FieldAt that recurses on the remaining path without leaving the table.
FieldAtRecurse_StaysOnTable ==
    /\ component = "fieldAt"
    /\ pc = "call"
    /\ Len(path) > 1
    /\ rootName' = rootName
    /\ path' = Tail(path)
    /\ calls' = calls + 1
    /\ UNCHANGED <<component, storageClients, gcsClient, faithful, database, registry, procs, evaluated, repoCalls, ctx, results, allErrs, stack, pc, tree, jsonBytes, tamperedAt, decoded, arguments,
                   evaluation, field>>

\* A FieldAt that returns the zero Field as soon as a link of the path is not
\* registered, instead of recursing on the table named "".
FieldAtRecurse_StopsAtUnknownLink ==
    /\ component = "fieldAt"
    /\ pc = "call"
    /\ Len(path) > 1
    /\ IF path[1] \in DOMAIN TableNamed(DataModel, rootName).LinksToSingle
       THEN /\ rootName' = LinkNamed(TableNamed(DataModel, rootName), path[1]).LinkedTableName
            /\ path' = Tail(path)
            /\ calls' = calls + 1
            /\ UNCHANGED <<pc, field>>
       ELSE /\ field' = ZeroField
            /\ pc' = "returned"
            /\ UNCHANGED <<rootName, path, calls>>
    /\ UNCHANGED <<component, storageClients, gcsClient, faithful, database, registry, procs, evaluated, repoCalls, ctx, results, allErrs, stack, tree, jsonBytes, tamperedAt, decoded, arguments,
                   evaluation>>

\* len(path) > 1: return dm.FieldAt(currentRoot.LinksToSingle[path[0]].LinkedTableName, path[1:])
FieldAtRecurse ==
    /\ component = "fieldAt"
    /\ pc = "call"
    /\ Len(path) > 1
    /\ rootName' = LinkNamed(TableNamed(DataModel, rootName), path[1]).LinkedTableName
    /\ path' = Tail(path)
    /\ calls' = calls + 1
    /\ UNCHANGED <<component, storageClients, gcsClient, faithful, database, registry, procs, evaluated, repoCalls, ctx, results, allErrs, stack, pc, tree, jsonBytes, tamperedAt, decoded, arguments,
                   evaluation, field>>

\* len(path) == 0: path[0] is out of range and the call panics.
FieldAtPanic ==
    /\ component = "fieldAt"
    /\ pc = "call"
    /\ Len(path) = 0
    /\ pc' = "panicked"
    /\ UNCHANGED <<component, storageClients, gcsClient, faithful, database, registry, procs, evaluated, repoCalls, ctx, results, allErrs, stack, tree, jsonBytes, tamperedAt, decoded, arguments,
                   evaluation, rootName, path, calls, field>>

NextFieldAt == FieldAtReturn \/ FieldAtRecurse \/ FieldAtPanic

SpecFieldAt == InitFieldAt /\ [][NextFieldAt]_vars

\* A call that has been started runs on: the goroutine executing FieldAt is
\* scheduled until the call returns or panics.
FairSpecFieldAt == SpecFieldAt /\ WF_vars(NextFieldAt)

\* Whether the root table or an intermediate link of the path is not in the
\* data model.
RECURSIVE Unrecognized(_, _)
Unrecognized(root, p) ==
    \/ root \notin DOMAIN DataModel.Tables
    \/ /\ Len(p) > 1
       /\ \/ p[1] \notin DOMAIN DataModel.Tables[root].LinksToSingle
          \/ Unrecognized(DataModel.Tables[root].LinksToSingle[p[1]].LinkedTableName,
                          Tail(p))

\* C10: FieldAt fails with a structured error, and never panics, whenever the
\* root table name or an intermediate link name of the path is not in the
\* data model, for every table name and every path.
FieldAtFailsOnUnrecognizedName ==
    (/\ component = "fieldAt"
     /\ pc \in {"returned", "panicked"}
     /\ Unrecognized(arguments.rootName, arguments.path)) =>
        /\ pc = "returned"
        /\ "err" \in DOMAIN field

\* The table reached from a table of the data model by following the leading
\* elements of a path, all of them links registered where they are followed.
RECURSIVE TableReached(_, _)
TableReached(root, p) ==
    IF Len(p) <= 1 THEN root
    ELSE TableReached(DataModel.Tables[root].LinksToSingle[p[1]].LinkedTableName,
                      Tail(p))

\* The last element of a path.
LastOf(p) == p[Len(p)]

\* Whether the last element of the path is a field declared on the table the
\* path leads to.
LeadsToDeclaredField(root, p) ==
    /\ Len(p) >= 1
    /\ ~Unrecognized(root, p)
    /\ LastOf(p) \in DOMAIN DataModel.Tables[TableReached(root, p)].Fields

\* C11: for a path of one element FieldAt returns the field declared under
\* that name on the root table; for a longer path whose leading elements are
\* all registered links it returns the field declared under the last element
\* on the table reached by following those links in order, so that
\* FieldAt("orders", ["customer", "name"]) is the declared field
\* customers.name.
FieldAtReturnsDeclaredField ==
    /\ (/\ component = "fieldAt"
        /\ pc = "returned"
        /\ LeadsToDeclaredField(arguments.rootName, arguments.path)) =>
           field = DataModel.Tables[TableReached(arguments.rootName, arguments.path)]
                       .Fields[LastOf(arguments.path)]
    /\ (/\ component = "fieldAt"
        /\ pc = "returned"
        /\ arguments = [rootName |-> "orders", path |-> <<"customer", "name">>]) =>
           field = CustomersTable.Fields["name"]

\* FieldAt("orders", ["customer", "name"]) has returned after following the
\* link customer.
CustomerNameReturned ==
    /\ component = "fieldAt"
    /\ pc = "returned"
    /\ arguments = [rootName |-> "orders", path |-> <<"customer", "name">>]
    /\ calls = 1
    /\ rootName = "customers"

\* The elements of the call's path that later calls have already consumed.
PathConsumed == Len(arguments.path) - Len(path)

\* C22: FieldAt terminates for every non-empty path, also through the cycle
\* orders -> customers -> orders, through the self-link of customers and
\* through names of no link: a call with a non-empty path returns, every
\* recursive call consumes one element of the path, and at the return exactly
\* len(path) - 1 recursive calls have been made.
FieldAtTerminatesWithinPath ==
    /\ [](component = "fieldAt" => calls = PathConsumed)
    /\ []((component = "fieldAt" /\ pc = "returned") =>
              calls = Len(arguments.path) - 1)
    /\ [][(component = "fieldAt" /\ pc = "call") =>
              (Len(path') < Len(path) \/ pc' # "call")]_vars
    /\ (component = "fieldAt" /\ pc = "call" /\ Len(path) >= 1) ~> (pc = "returned")

\* A path of MaxPath elements has gone round the self-link of customers, then
\* through a name of no link, and FieldAt has returned.
SelfLinkAndUnknownLinkReturned ==
    /\ component = "fieldAt"
    /\ pc = "returned"
    /\ Len(arguments.path) = MaxPath
    /\ arguments.rootName = "customers"
    /\ arguments.path[1] = "referrer"
    /\ arguments.path[MaxPath - 1] = "missing_link"
    /\ calls = MaxPath - 1

-----------------------------------------------------------------------------
(***************************************************************************)
(* NodeEvaluation.AllErrors (src/models/ast/ast_node_evaluation.go)        *)
(***************************************************************************)

\* Most nodes of a NodeEvaluation tree AllErrors is called on.
MaxNodes == 4

\* Most positional children of one node, and the names of its named children.
MaxChildren == 2

ChildNames == <<"left", "right">>

\* struct NodeEvaluation; ReturnValue plays no part in AllErrors.
NodeEvaluation(returnValue, errors, children, namedChildren) ==
    [ReturnValue |-> returnValue, Errors |-> errors, Children |-> children,
     NamedChildren |-> namedChildren]

\* The errors a node carries are told apart by the node that detected them
\* (the path from the root, one string per step) and their rank in its list.
ErrorAt(at, n) == [at |-> at, n |-> n]

\* The Errors field: the list of the node's errors, the nil slice when it has
\* none.
NilSlice == <<>>

ErrorsOf(at, count) ==
    IF count = 0 THEN NilSlice ELSE [n \in 1..count |-> ErrorAt(at, n)]

\* How many errors one node carries.
ErrorCounts == 0..1

PositionName(i) == IF i = 1 THEN "0" ELSE IF i = 2 THEN "1" ELSE "2"

\* The ways a node holds its children: how many positional ones, and which of
\* the names are keys of NamedChildren.
Layouts == [positional : 0..MaxChildren, named : SUBSET {1, 2}]

NamedCount(layout) == Cardinality(layout.named)

\* The n-th key of a layout, in the order of ChildNames.
NamedKey(layout, n) ==
    IF n = 1 THEN (IF 1 \in layout.named THEN ChildNames[1] ELSE ChildNames[2])
    ELSE ChildNames[2]

\* The steps from a node to its children, positional ones first.
StepsOf(layout) ==
    [i \in 1..(layout.positional + NamedCount(layout)) |->
        IF i <= layout.positional THEN PositionName(i)
        ELSE NamedKey(layout, i - layout.positional)]

\* The NodeEvaluation trees of exactly n nodes rooted at the path `at`, and the
\* lists of trees of n nodes in all, one tree behind each of the given steps.
RECURSIVE NodeEvaluationsAt(_, _)
RECURSIVE ForestsAt(_, _, _)
ForestsAt(at, steps, n) ==
    IF steps = <<>> THEN (IF n = 0 THEN {<<>>} ELSE {})
    ELSE UNION {
            {<<first>> \o rest :
                first \in NodeEvaluationsAt(Append(at, Head(steps)), k),
                rest \in ForestsAt(at, Tail(steps), n - k)} :
            k \in 1..(n - (Len(steps) - 1))}

NodeEvaluationsAt(at, n) ==
    UNION {
        {NodeEvaluation(
            Nil,
            ErrorsOf(at, count),
            SubSeq(forest, 1, layout.positional),
            [name \in {NamedKey(layout, i) : i \in 1..NamedCount(layout)} |->
                forest[layout.positional +
                       (CHOOSE i \in 1..NamedCount(layout) : NamedKey(layout, i) = name)]]) :
            count \in ErrorCounts,
            forest \in ForestsAt(at, StepsOf(layout), n - 1)} :
        layout \in Layouts}

\* The trees of at most n nodes.
NodeEvaluationsUpTo(n) == UNION {NodeEvaluationsAt(<<>>, k) : k \in 1..n}

\* The orders in which a range over a Go map may yield its keys: any order,
\* and not the same one from one range to the next.
RangeOrders(keys) ==
    {order \in [1..Cardinality(keys) -> keys] :
        \A i, j \in DOMAIN order : order[i] = order[j] => i = j}

InitAllErrors ==
    /\ component = "allErrors"
    /\ storageClients = Nil
    /\ gcsClient = Nil
    /\ faithful = Nil
    /\ database = Nil
    /\ registry = Nil
    /\ procs = Nil
    /\ evaluated = Nil
    /\ repoCalls = Nil
    /\ ctx = Nil
    /\ pc = "call"
    /\ evaluation \in NodeEvaluationsUpTo(MaxNodes)
    /\ stack = <<>>
    /\ allErrs = NilSlice
    /\ results = <<>>
    /\ arguments = Nil
    /\ tree = Nil
    /\ jsonBytes = Nil
    /\ tamperedAt = Nil
    /\ decoded = Nil
    /\ rootName = Nil
    /\ path = Nil
    /\ calls = 0
    /\ field = Nil

\* root.AllErrors(): errs is nil, addEvaluationErrors(root) is called.
AllErrorsCall ==
    /\ component = "allErrors"
    /\ pc = "call"
    /\ Len(results) < 2
    /\ stack' = <<evaluation>>
    /\ allErrs' = NilSlice
    /\ pc' = "walking"
    /\ UNCHANGED <<component, storageClients, gcsClient, faithful, database, registry, procs, evaluated, repoCalls, ctx, results, tree, jsonBytes, tamperedAt, decoded,
                   arguments, evaluation, rootName, path, calls, field>>

\* addEvaluationErrors that visits the named children before the positional
\* ones.
AddEvaluationErrors_NamedFirst ==
    /\ component = "allErrors"
    /\ pc = "walking"
    /\ stack # <<>>
    /\ LET child == Head(stack) IN
        /\ allErrs' = IF child.Errors # NilSlice THEN allErrs \o child.Errors ELSE allErrs
        /\ \E order \in RangeOrders(DOMAIN child.NamedChildren) :
              stack' = [i \in DOMAIN order |-> child.NamedChildren[order[i]]]
                       \o child.Children \o Tail(stack)
    /\ UNCHANGED <<component, storageClients, gcsClient, faithful, database, registry, procs, evaluated, repoCalls, ctx, results, pc, tree, jsonBytes, tamperedAt, decoded,
                   arguments, evaluation, rootName, path, calls, field>>

\* One call of addEvaluationErrors(child): the node's errors are appended, then
\* the calls for child.Children are made in order, then the calls for
\* child.NamedChildren in the order the range over the map yields them.
AddEvaluationErrors ==
    /\ component = "allErrors"
    /\ pc = "walking"
    /\ stack # <<>>
    /\ LET child == Head(stack) IN
        /\ allErrs' = IF child.Errors # NilSlice THEN allErrs \o child.Errors ELSE allErrs
        /\ \E order \in RangeOrders(DOMAIN child.NamedChildren) :
              stack' = child.Children
                       \o [i \in DOMAIN order |-> child.NamedChildren[order[i]]]
                       \o Tail(stack)
    /\ UNCHANGED <<component, storageClients, gcsClient, faithful, database, registry, procs, evaluated, repoCalls, ctx, results, pc, tree, jsonBytes, tamperedAt, decoded,
                   arguments, evaluation, rootName, path, calls, field>>

\* return errs
AllErrorsReturn ==
    /\ component = "allErrors"
    /\ pc = "walking"
    /\ stack = <<>>
    /\ results' = Append(results, allErrs)
    /\ pc' = "call"
    /\ UNCHANGED <<component, storageClients, gcsClient, faithful, database, registry, procs, evaluated, repoCalls, ctx, allErrs, stack, tree, jsonBytes, tamperedAt, decoded,
                   arguments, evaluation, rootName, path, calls, field>>

NextAllErrors == AllErrorsCall \/ AddEvaluationErrors \/ AllErrorsReturn

SpecAllErrors == InitAllErrors /\ [][NextAllErrors]_vars

\* Every error carried by a node of the tree.
RECURSIVE ErrorsIn(_)
ErrorsIn(node) ==
    {node.Errors[i] : i \in DOMAIN node.Errors}
    \cup UNION {ErrorsIn(node.Children[i]) : i \in DOMAIN node.Children}
    \cup UNION {ErrorsIn(node.NamedChildren[name]) : name \in DOMAIN node.NamedChildren}

\* Whether the node at path p is a proper ancestor of the node at path q.
IsAncestor(p, q) ==
    /\ Len(p) < Len(q)
    /\ SubSeq(q, 1, Len(p)) = p

\* The first step at which two paths part, 0 when one runs along the other.
PartAt(p, q) ==
    IF \E k \in 1..Len(p) : k <= Len(q) /\ p[k] # q[k]
    THEN CHOOSE k \in 1..Len(p) :
            /\ k <= Len(q)
            /\ p[k] # q[k]
            /\ \A h \in 1..(k - 1) : p[h] = q[h]
    ELSE 0

IsPositional(step) == \E i \in 1..(MaxChildren + 1) : step = PositionName(i)

PositionOf(step) == CHOOSE i \in 1..(MaxChildren + 1) : step = PositionName(i)

\* Whether, of two children of one node, the one behind step s comes first:
\* an earlier positional child, or a positional child against a named one.
SiblingBefore(s, t) ==
    /\ IsPositional(s)
    /\ IsPositional(t) => PositionOf(s) < PositionOf(t)

\* Whether a list holds the errors of the tree in pre-order, each one once.
IsPreOrder(list, root) ==
    /\ Len(list) = Cardinality(ErrorsIn(root))
    /\ {list[i] : i \in DOMAIN list} = ErrorsIn(root)
    /\ \A i, j \in DOMAIN list :
          LET p == list[i].at
              q == list[j].at
              k == PartAt(p, q)
          IN  /\ IsAncestor(p, q) => i < j
              /\ (p = q /\ list[i].n < list[j].n) => i < j
              /\ (k # 0 /\ SiblingBefore(p[k], q[k])) => i < j

\* C12: AllErrors returns the errors of a NodeEvaluation tree in pre-order:
\* the errors of a node come before the errors of all its descendants, the
\* errors of the positional children come in child order and before the
\* errors of any named child, and the list contains every error of every
\* node exactly once.
AllErrorsIsPreOrder ==
    component = "allErrors" =>
        \A c \in DOMAIN results : IsPreOrder(results[c], evaluation)

\* AllErrors has returned on a tree whose root, positional child, grandchild
\* and named child carry an error each.
AllErrorsOfDeepTreeReturned ==
    /\ component = "allErrors"
    /\ Len(results) >= 1
    /\ Len(evaluation.Errors) = 1
    /\ Len(evaluation.Children) = 1
    /\ Len(evaluation.Children[1].Errors) = 1
    /\ Len(evaluation.Children[1].Children) = 1
    /\ Len(evaluation.Children[1].Children[1].Errors) = 1
    /\ DOMAIN evaluation.NamedChildren = {"left"}
    /\ Len(evaluation.NamedChildren["left"].Errors) = 1
    /\ Len(results[1]) = 4

\* C13: idempotence: two calls of AllErrors on the same NodeEvaluation tree,
\* trees with two or more named children that each carry errors included,
\* return the errors in the same order.
AllErrorsSameOrderTwice ==
    (/\ component = "allErrors"
     /\ Len(results) = 2) =>
        results[1] = results[2]

-----------------------------------------------------------------------------
(***************************************************************************)
(* DatabaseAccess                                                          *)
(* (src/usecases/ast_eval/evaluate/evaluate_database_access.go)            *)
(***************************************************************************)

\* fmt.Errorf("<msg> %w", err): the error chain, outermost message first.
Errorf(msg, chain) == <<[msg |-> msg]>> \o chain

\* The sentinel errors of package models the access wraps or tests for.
NotFoundError == Err("NotFound")

NotFoundInRepositoryError == Err("NotFoundInRepository")

\* Errors only the repositories produce: a failed read, a null field.
UnderlyingIOError == Err("UnderlyingIO")

OperatorNullValueReadError == Err("NullValueRead")

\* The nil error: no chain.
NoError == <<>>

\* (value, error) as Evaluate returns it.
Returned(value, err) == [value |-> value, err |-> err]

\* arguments.NamedArgs[name]: nil when the map has no such key.
NamedArg(args, name) ==
    IF name \in DOMAIN args.NamedArgs THEN args.NamedArgs[name] ELSE Nil

\* Lines 47-53 without the assertion on the path elements.
PathError_ElementsUnchecked(pathArg) ==
    IF pathArg.kind # "list"
    THEN Errorf("path is not a string", <<ErrRuntimeExpression>>)
    ELSE NoError

\* Lines 43-53: path must be a []any of strings.
PathError(pathArg) ==
    IF pathArg.kind # "list"
    THEN Errorf("path is not a string", <<ErrRuntimeExpression>>)
    ELSE IF \E i \in DOMAIN pathArg.val : pathArg.val[i].kind # "string"
    THEN Errorf("path value is not a string", <<ErrRuntimeExpression>>)
    ELSE NoError

\* Lines 35-53 of Evaluate: the type assertions on the named arguments, in
\* order; no error when all of them hold.
ArgumentsError(args) ==
    IF NamedArg(args, "tableName").kind # "string"
    THEN Errorf("tableName is not a string", <<ErrRuntimeExpression>>)
    ELSE IF NamedArg(args, "fieldName").kind # "string"
    THEN Errorf("fieldName is not a string", <<ErrRuntimeExpression>>)
    ELSE PathError(NamedArg(args, "path"))

\* pathStringArr: the strings of path, in order.
PathStringArr(args) ==
    [i \in DOMAIN NamedArg(args, "path").val |-> NamedArg(args, "path").val[i].val]

\* models.DbFieldReadParams as getDbField fills it.
DbFieldReadParams(args) ==
    [TriggerTableName |-> NamedArg(args, "tableName").val,
     Path             |-> PathStringArr(args),
     FieldName        |-> NamedArg(args, "fieldName").val]

\* What the caller's context is; what a call not given it runs under.
Contexts == {"live", "cancelled"}

Background == "Background"

\* The named arguments Evaluate is called with.
DbTableNames == {StringV("orders"), StringV("ghosts"), IntV(0, 1), Nil}

DbFieldNames == {StringV("name"), StringV("status"), BoolV(TRUE), Nil}

DbPaths ==
    {ListV(<<>>),
     ListV(<<StringV("customer")>>),
     ListV(<<StringV("missing_link")>>),
     ListV(<<StringV("customer"), StringV("referrer")>>),
     ListV(<<StringV("customer"), StringV("missing_link")>>),
     ListV(<<StringV("customer"), IntV(0, 1)>>),
     ListV(<<IntV(0, 1)>>),
     StringV("customer"),
     Nil}

DbNamedArgs ==
    {[n \in {"tableName", "fieldName", "path"} |->
          CASE n = "tableName" -> t [] n = "fieldName" -> f [] n = "path" -> p] :
        t \in DbTableNames, f \in DbFieldNames, p \in DbPaths}

\* What the repositories, external to the evaluator, can answer.
DataModelAnswers == {Nil, NotFoundInRepositoryError, UnderlyingIOError}

DbFieldAnswers ==
    {[value |-> v, err |-> Nil] : v \in {StringV("Abc"), FloatV(0, 1, 0), Nil}}
    \cup {[value |-> Nil, err |-> e] :
            e \in {NotFoundError, OperatorNullValueReadError, UnderlyingIOError}}

\* Whether some hop of the path, followed from the table, is not a link
\* registered on the table it is followed from.
RECURSIVE HasUnregisteredHop(_, _)
HasUnregisteredHop(table, hops) ==
    /\ hops # <<>>
    /\ \/ table \notin DOMAIN DataModel.Tables
       \/ Head(hops) \notin DOMAIN DataModel.Tables[table].LinksToSingle
       \/ HasUnregisteredHop(
              DataModel.Tables[table].LinksToSingle[Head(hops)].LinkedTableName,
              Tail(hops))

\* What the ingested-data repository can answer to a read: any of its answers
\* when the table is one of the data model and every hop of the path leads
\* over a registered link, an error when no row can be reached.
DbFieldAnswersFor(params) ==
    IF \/ params.TriggerTableName \notin DOMAIN DataModel.Tables
       \/ HasUnregisteredHop(params.TriggerTableName, params.Path)
    THEN {answer \in DbFieldAnswers : answer.err \in {NotFoundError, UnderlyingIOError}}
    ELSE DbFieldAnswers

\* Lines 64-68 and 56-58: what Evaluate returns when the data model is not
\* read.
DataModelNotRead(err) ==
    IF err = NotFoundInRepositoryError
    THEN Returned(Nil, Errorf("getDbField not working",
                           Errorf("data model not found:", <<NotFoundError>>)))
    ELSE Returned(Nil, Errorf("getDbField not working",
                           Errorf("error getting data model:", <<err>>)))

\* An Evaluate that drops the error of the repository's answer.
DbFieldRead_ErrorDropped(answer) == Returned(answer.value, NoError)

\* Lines 74-81 and 55-59: what Evaluate returns on the repository's answer.
DbFieldRead(answer) ==
    IF answer.err # Nil
    THEN Returned(Nil, Errorf("getDbField not working", <<answer.err>>))
    ELSE Returned(answer.value, NoError)

\* Lines 70-72 and 56-58: what Evaluate returns when the transaction fails.
TransactionNotOpened ==
    Returned(Nil, Errorf("getDbField not working", <<UnderlyingIOError>>))

InitDatabaseAccess ==
    /\ component = "databaseAccess"
    /\ storageClients = Nil
    /\ gcsClient = Nil
    /\ faithful = Nil
    /\ database = Nil
    /\ registry = Nil
    /\ procs = Nil
    /\ evaluated = Nil
    /\ pc = "call"
    /\ ctx \in Contexts
    /\ \E named \in DbNamedArgs : arguments = Arguments(<<>>, named)
    /\ evaluation = Nil
    /\ repoCalls = <<>>
    /\ results = Nil
    /\ allErrs = Nil
    /\ stack = Nil
    /\ tree = Nil
    /\ jsonBytes = Nil
    /\ tamperedAt = Nil
    /\ decoded = Nil
    /\ rootName = Nil
    /\ path = Nil
    /\ calls = 0
    /\ field = Nil

\* Evaluate, lines 34-55: a failed assertion returns (nil, error); otherwise
\* getDbField is entered.
DatabaseAccess_Evaluate ==
    /\ component = "databaseAccess"
    /\ pc = "call"
    /\ IF ArgumentsError(arguments) # NoError
       THEN /\ evaluation' = Returned(Nil, ArgumentsError(arguments))
            /\ pc' = "returned"
       ELSE /\ pc' = "getDbField"
            /\ UNCHANGED evaluation
    /\ UNCHANGED <<component, storageClients, gcsClient, faithful, database, registry, procs, evaluated, repoCalls, ctx, results, allErrs, stack, tree, jsonBytes,
                   tamperedAt, decoded, arguments, rootName, path, calls, field>>

\* getDbField, lines 63-68, and lines 56-58 of Evaluate on its error: the data
\* model is fetched under context.Background().
GetDataModel ==
    /\ component = "databaseAccess"
    /\ pc = "getDbField"
    /\ repoCalls' = Append(repoCalls, [fn |-> "GetDataModel", ctx |-> Background])
    /\ \E err \in DataModelAnswers :
          IF err # Nil
          THEN /\ evaluation' = DataModelNotRead(err)
               /\ pc' = "returned"
          ELSE /\ pc' = "transaction"
               /\ UNCHANGED evaluation
    /\ UNCHANGED <<component, storageClients, gcsClient, faithful, database, registry, procs, evaluated, ctx, results, allErrs, stack, tree, jsonBytes,
                   tamperedAt, decoded, arguments, rootName, path, calls, field>>

\* getDbField, lines 70-81, and lines 56-59 of Evaluate: inside the
\* transaction the ingested-data repository is handed the table name, the
\* path as given, the field name and the data model; its answer is returned,
\* an error wrapped.
GetDbField ==
    /\ component = "databaseAccess"
    /\ pc = "transaction"
    /\ repoCalls' = Append(repoCalls,
           [fn |-> "GetDbField", ctx |-> Background,
            params |-> DbFieldReadParams(arguments)])
    /\ \E answer \in DbFieldAnswersFor(DbFieldReadParams(arguments)) :
          evaluation' = DbFieldRead(answer)
    /\ pc' = "returned"
    /\ UNCHANGED <<component, storageClients, gcsClient, faithful, database, registry, procs, evaluated, ctx, results, allErrs, stack, tree, jsonBytes,
                   tamperedAt, decoded, arguments, rootName, path, calls, field>>

\* getDbField, lines 70-72: the transaction cannot be opened and its error is
\* returned without the function having run.
TransactionFails ==
    /\ component = "databaseAccess"
    /\ pc = "transaction"
    /\ evaluation' = TransactionNotOpened
    /\ pc' = "returned"
    /\ UNCHANGED <<component, storageClients, gcsClient, faithful, database, registry, procs, evaluated, repoCalls, ctx, results, allErrs, stack, tree, jsonBytes,
                   tamperedAt, decoded, arguments, rootName, path, calls, field>>

NextDatabaseAccess ==
    DatabaseAccess_Evaluate \/ GetDataModel \/ GetDbField \/ TransactionFails

SpecDatabaseAccess == InitDatabaseAccess /\ [][NextDatabaseAccess]_vars

\* Whether Evaluate was handed a table name, a field name and a path of the
\* types it needs.
DbOperandsUsable ==
    /\ NamedArg(arguments, "tableName").kind = "string"
    /\ NamedArg(arguments, "fieldName").kind = "string"
    /\ NamedArg(arguments, "path").kind = "list"
    /\ \A i \in DOMAIN NamedArg(arguments, "path").val :
          NamedArg(arguments, "path").val[i].kind = "string"

\* Evaluate was called on a registered table with a path one of whose hops is
\* no registered link.
DbPathHasUnregisteredHop ==
    /\ component = "databaseAccess"
    /\ DbOperandsUsable
    /\ NamedArg(arguments, "tableName").val \in DOMAIN DataModel.Tables
    /\ HasUnregisteredHop(NamedArg(arguments, "tableName").val,
                          [i \in DOMAIN NamedArg(arguments, "path").val |->
                              NamedArg(arguments, "path").val[i].val])

\* C14: DatabaseFieldAccess with a non-empty path checks each hop against the
\* links registered on the current table, starting at the given table, and
\* fails when a hop is not a registered link; the ingested-data repository is
\* consulted only after every hop has been resolved, so never for such a path.
DatabaseAccessResolvesHopsFirst ==
    DbPathHasUnregisteredHop =>
        /\ \A i \in DOMAIN repoCalls : repoCalls[i].fn # "GetDbField"
        /\ pc = "returned" => evaluation.err # NoError

\* C16: DatabaseAccess.Evaluate returns a nil value and a RuntimeExpression
\* error when tableName or fieldName is not a string, when path is not a
\* list, or when a path element is not a string, and in each of these cases
\* it calls neither the data model repository nor the ingested-data read
\* repository.
DatabaseAccessRejectsUnusableOperands ==
    (component = "databaseAccess" /\ ~DbOperandsUsable) =>
        /\ repoCalls = <<>>
        /\ pc \in {"call", "returned"}
        /\ pc = "returned" =>
              /\ evaluation.value = Nil
              /\ evaluation.err # NoError
              /\ evaluation.err[Len(evaluation.err)] = ErrRuntimeExpression

\* Evaluate has returned on a path whose second element is not a string.
PathWithIntegerElementRejected ==
    /\ component = "databaseAccess"
    /\ pc = "returned"
    /\ NamedArg(arguments, "tableName") = StringV("orders")
    /\ NamedArg(arguments, "fieldName") = StringV("name")
    /\ NamedArg(arguments, "path") = ListV(<<StringV("customer"), IntV(0, 1)>>)
    /\ evaluation.err = Errorf("path value is not a string", <<ErrRuntimeExpression>>)

\* C18: when the caller's execution context is cancelled, DatabaseAccess
\* returns a cancellation-kind error instead of a normal result, and the
\* cancellation reaches the data model lookup and the ingested-data read:
\* both run under the caller's context.
CancellationObserved ==
    (component = "databaseAccess" /\ ctx = "cancelled") =>
        /\ \A i \in DOMAIN repoCalls : repoCalls[i].ctx = ctx
        /\ pc = "returned" =>
              /\ evaluation.err # NoError
              /\ evaluation.err[Len(evaluation.err)].kind = "Cancelled"

-----------------------------------------------------------------------------
(***************************************************************************)
(* getPayloadFieldGeneric (src/unnamed/part_000)                           *)
(***************************************************************************)

\* A payload field as the dynamic struct of src/app/payload.go holds it: a
\* pointer of the type declared for the field, nil when the field is null.
Pointer(type, target) == [type |-> type, target |-> target]

\* The types getPayloadFieldGeneric can be instantiated with.
RequestedTypes == {"string", "bool", "float64"}

\* var output T: the zero value of the requested type.
ZeroValue(type) ==
    CASE type = "string" -> StringV("")
      [] type = "bool" -> BoolV(FALSE)
      [] type = "float64" -> FloatV(0, 0, 0)

\* The pointers a field of a payload can be.
PayloadPointers ==
    {Pointer("string", StringV("acc-1")), Pointer("string", Nil),
     Pointer("bool", BoolV(TRUE)), Pointer("bool", Nil),
     Pointer("float64", FloatV(0, 3, 0)), Pointer("float64", Nil),
     Pointer("int", IntV(0, 3)), Pointer("int", Nil)}

PayloadFieldNames == {"account_id", "amount"}

Payloads == [PayloadFieldNames -> PayloadPointers]

\* What the accessor answers for a field that is not part of the schema.
FieldNotInSchemaError == Err("FieldNotInSchema")

\* d.GetPayloadField(fieldName): the field's pointer, or the accessor's error.
GetPayloadField(payload, fieldName) ==
    IF fieldName \in DOMAIN payload
    THEN [raw |-> payload[fieldName], err |-> NoError]
    ELSE [raw |-> Nil, err |-> <<FieldNotInSchemaError>>]

\* A getPayloadFieldGeneric that tests for a nil pointer before the type.
getPayloadFieldGeneric_NullBeforeType(type, payload, fieldName) ==
    LET got == GetPayloadField(payload, fieldName) IN
    IF got.err # NoError THEN Returned(ZeroValue(type), got.err)
    ELSE IF got.raw.target = Nil
    THEN Returned(ZeroValue(type),
                  Errorf("Payload field account_id is null:", <<OperatorNullValueReadError>>))
    ELSE IF got.raw.type # type
    THEN Returned(ZeroValue(type),
                  Errorf("Payload field account_id is not a pointer to the right type", NoError))
    ELSE Returned(got.raw.target, NoError)

\* getPayloadFieldGeneric[T](d, fieldName), lines 13-31.
getPayloadFieldGeneric(type, payload, fieldName) ==
    LET got == GetPayloadField(payload, fieldName) IN
    IF got.err # NoError THEN Returned(ZeroValue(type), got.err)
    ELSE IF got.raw.type # type
    THEN Returned(ZeroValue(type),
                  Errorf("Payload field account_id is not a pointer to the right type", NoError))
    ELSE IF got.raw.target = Nil
    THEN Returned(ZeroValue(type),
                  Errorf("Payload field account_id is null:", <<OperatorNullValueReadError>>))
    ELSE Returned(got.raw.target, NoError)

InitPayload ==
    /\ component = "payload"
    /\ storageClients = Nil
    /\ gcsClient = Nil
    /\ faithful = Nil
    /\ database = Nil
    /\ registry = Nil
    /\ procs = Nil
    /\ evaluated = Nil
    /\ pc = "call"
    /\ \E type \in RequestedTypes, payload \in Payloads,
          fieldName \in PayloadFieldNames \cup {"not_in_schema"} :
          arguments = [type |-> type, payload |-> payload, fieldName |-> fieldName]
    /\ evaluation = Nil
    /\ ctx = Nil
    /\ repoCalls = Nil
    /\ results = Nil
    /\ allErrs = Nil
    /\ stack = Nil
    /\ tree = Nil
    /\ jsonBytes = Nil
    /\ tamperedAt = Nil
    /\ decoded = Nil
    /\ rootName = Nil
    /\ path = Nil
    /\ calls = 0
    /\ field = Nil

ReadPayloadField ==
    /\ component = "payload"
    /\ pc = "call"
    /\ evaluation' = getPayloadFieldGeneric(arguments.type, arguments.payload,
                                            arguments.fieldName)
    /\ pc' = "returned"
    /\ UNCHANGED <<component, storageClients, gcsClient, faithful, database, registry, procs, evaluated, repoCalls, ctx, results, allErrs, stack, tree, jsonBytes,
                   tamperedAt, decoded, arguments, rootName, path, calls, field>>

NextPayload == ReadPayloadField

SpecPayload == InitPayload /\ [][NextPayload]_vars

\* The kind of failure an error stands for: the sentinel it wraps, or none.
FailureKind(err) ==
    IF err = NoError THEN "none"
    ELSE IF err = <<FieldNotInSchemaError>> THEN "accessor"
    ELSE IF err[Len(err)] = OperatorNullValueReadError THEN "null"
    ELSE "type"

\* C15: reading a payload field distinguishes three failures as three
\* different error kinds: the field is not part of the schema (accessor
\* error), the field is present but null (null-value error), and the field
\* has another declared type than requested (type error); a null field of the
\* requested type is reported as null, never as a type error, and a non-null
\* field of the requested type returns its value with no error.
PayloadFailuresDistinguished ==
    (component = "payload" /\ pc = "returned") =>
        LET name == arguments.fieldName
            inSchema == name \in DOMAIN arguments.payload
            kind == FailureKind(evaluation.err)
        IN  /\ ~inSchema => kind = "accessor"
            /\ (inSchema /\ arguments.payload[name].type # arguments.type) =>
                  kind = "type"
            /\ (inSchema /\ arguments.payload[name] = Pointer(arguments.type, Nil)) =>
                  kind = "null"
            /\ (/\ inSchema
                /\ arguments.payload[name].type = arguments.type
                /\ arguments.payload[name].target # Nil) =>
                  /\ kind = "none"
                  /\ evaluation.value = arguments.payload[name].target
            /\ kind = "type" =>
                  /\ evaluation.err # <<FieldNotInSchemaError>>
                  /\ \A i \in DOMAIN evaluation.err :
                        evaluation.err[i] # OperatorNullValueReadError

\* A null string field was read as a string and reported as null.
NullStringFieldRead ==
    /\ component = "payload"
    /\ pc = "returned"
    /\ arguments.type = "string"
    /\ arguments.fieldName = "account_id"
    /\ arguments.payload["account_id"] = Pointer("string", Nil)
    /\ FailureKind(evaluation.err) = "null"

-----------------------------------------------------------------------------
(***************************************************************************)
(* The evaluator: the walk over a rule tree that builds the NodeEvaluation *)
(* tree (src/models/ast/ast_node_evaluation.go), with the operators Equal  *)
(* and DatabaseAccess at its nodes.                                        *)
(***************************************************************************)

\* A node of a rule tree.
Node(function, constant, children, namedChildren) ==
    [Function |-> function, Constant |-> constant, Children |-> children,
     NamedChildren |-> namedChildren]

ConstantNode(value) == Node("Constant", value, <<>>, NoNamedArgs)

\* A data access on orders.name over the given path.
DatabaseAccessNode(pathValue) ==
    Node("DatabaseAccess", Nil, <<>>,
         [n \in {"tableName", "fieldName", "path"} |->
             CASE n = "tableName" -> ConstantNode(StringV("orders"))
               [] n = "fieldName" -> ConstantNode(StringV("name"))
               [] n = "path" -> ConstantNode(pathValue)])

\* Paths of a data access that lead nowhere: an element that is no string, a
\* path that is no list, a hop that is no registered link.
BadPaths ==
    {ListV(<<StringV("customer"), IntV(0, 1)>>),
     StringV("customer"),
     ListV(<<StringV("missing_link")>>)}

GoodPaths == {ListV(<<>>), ListV(<<StringV("customer")>>)}

\* The operands of the rule trees evaluated.
Operands ==
    {ConstantNode(BoolV(FALSE)), ConstantNode(BoolV(TRUE)), ConstantNode(StringV("x"))}
    \cup {DatabaseAccessNode(p) : p \in BadPaths \cup GoodPaths}

RuleTrees ==
    {Node(function, Nil, <<left, right>>, NoNamedArgs) :
        function \in {"And", "Equal"}, left \in Operands, right \in Operands}

\* Everything DatabaseAccess.Evaluate can return on the given arguments.
DatabaseAccessOutcomes(args) ==
    IF ArgumentsError(args) # NoError
    THEN {Returned(Nil, ArgumentsError(args))}
    ELSE {DataModelNotRead(err) : err \in DataModelAnswers \ {Nil}}
         \cup {DbFieldRead(answer) : answer \in DbFieldAnswersFor(DbFieldReadParams(args))}
         \cup {TransactionNotOpened}

\* The evaluation of a constant: its value, no error.
EvaluateConstant(node) == NodeEvaluation(node.Constant, NilSlice, <<>>, NoNamedArgs)

\* The evaluations an operand can have: a constant's, or a data access's on
\* its named constants, one per outcome of the access.
OperandEvaluations(node) ==
    IF node.Function = "Constant" THEN {EvaluateConstant(node)}
    ELSE LET named == [n \in DOMAIN node.NamedChildren |->
                          EvaluateConstant(node.NamedChildren[n])]
             args == Arguments(<<>>, [n \in DOMAIN named |-> named[n].ReturnValue])
         IN  {NodeEvaluation(outcome.value,
                             IF outcome.err = NoError THEN NilSlice ELSE <<outcome.err>>,
                             <<>>, named) :
                outcome \in DatabaseAccessOutcomes(args)}

\* Whether the operands evaluated so far settle the value of the node: an
\* And with a false operand.
Determined(node, evaluations) ==
    /\ node.Function = "And"
    /\ \E i \in DOMAIN evaluations : evaluations[i].ReturnValue = BoolV(FALSE)

\* And over the values of its operands, all of them booleans.
And_Evaluate(args) ==
    IF \E i \in DOMAIN args.Args : args.Args[i].kind # "bool"
    THEN MakeEvaluateError(ErrArgumentInvalidType)
    ELSE MakeEvaluateResult(BoolV(\A i \in DOMAIN args.Args : args.Args[i].val), "and")

\* The evaluate function registered for the node's function.
EvaluateFunction(function, args) ==
    IF function = "And" THEN And_Evaluate(args) ELSE Equal_Evaluate(args)

InitEvaluator ==
    /\ component = "evaluator"
    /\ storageClients = Nil
    /\ gcsClient = Nil
    /\ faithful = Nil
    /\ database = Nil
    /\ registry = Nil
    /\ procs = Nil
    /\ pc = "operands"
    /\ tree \in RuleTrees
    /\ evaluated = <<>>
    /\ evaluation = Nil
    /\ arguments = Nil
    /\ ctx = Nil
    /\ repoCalls = Nil
    /\ results = Nil
    /\ allErrs = Nil
    /\ stack = Nil
    /\ jsonBytes = Nil
    /\ tamperedAt = Nil
    /\ decoded = Nil
    /\ rootName = Nil
    /\ path = Nil
    /\ calls = 0
    /\ field = Nil

\* The next positional child is evaluated, unless the value of the node is
\* already settled.
EvaluateOperand ==
    /\ component = "evaluator"
    /\ pc = "operands"
    /\ Len(evaluated) < Len(tree.Children)
    /\ ~Determined(tree, evaluated)
    /\ \E child \in OperandEvaluations(tree.Children[Len(evaluated) + 1]) :
          evaluated' = Append(evaluated, child)
    /\ UNCHANGED <<component, storageClients, gcsClient, faithful, database, registry, procs, repoCalls, ctx, results, allErrs, stack, pc, tree,
                   jsonBytes, tamperedAt, decoded, arguments, evaluation, rootName,
                   path, calls, field>>

\* The node's evaluate function runs on the values of the operands evaluated;
\* the NodeEvaluation holds its value, its errors and the operands'
\* evaluations.
EvaluateOperator ==
    /\ component = "evaluator"
    /\ pc = "operands"
    /\ \/ Len(evaluated) = Len(tree.Children)
       \/ Determined(tree, evaluated)
    /\ LET args == Arguments([i \in DOMAIN evaluated |-> evaluated[i].ReturnValue],
                             NoNamedArgs)
           result == EvaluateFunction(tree.Function, args)
       IN  /\ arguments' = args
           /\ evaluation' = NodeEvaluation(result.value, result.errs, evaluated,
                                           NoNamedArgs)
    /\ pc' = "returned"
    /\ UNCHANGED <<component, storageClients, gcsClient, faithful, database, registry, procs, evaluated, repoCalls, ctx, results, allErrs, stack, tree,
                   jsonBytes, tamperedAt, decoded, rootName, path, calls, field>>

NextEvaluator == EvaluateOperand \/ EvaluateOperator

SpecEvaluator == InitEvaluator /\ [][NextEvaluator]_vars

\* Whether a node of the evaluation tree carries an error.
RECURSIVE CarriesError(_)
CarriesError(node) ==
    \/ node.Errors # NilSlice
    \/ \E i \in DOMAIN node.Children : CarriesError(node.Children[i])
    \/ \E n \in DOMAIN node.NamedChildren : CarriesError(node.NamedChildren[n])

-----------------------------------------------------------------------------
(***************************************************************************)
(* Concurrent evaluations of one operator tree (src/unnamed/part_001,      *)
(* src/unnamed/part_007)                                                   *)
(***************************************************************************)

\* The evaluations that run at the same time, one per decision.
Evaluations == {1, 2}

\* The payload of each decision.
PayloadOf(p) ==
    [f \in PayloadFieldNames |->
        IF p = 1 THEN Pointer("string", StringV("acc-1")) ELSE Pointer("string", Nil)]

OrganizationOf(p) == IF p = 1 THEN "org-1" ELSE "org-2"

\* True.Eval, False.Eval and EqBool.Eval: eq.Left.Eval(d) == eq.Right.Eval(d).
RECURSIVE Eval(_, _)
Eval(operator, d) ==
    IF operator = True THEN TRUE
    ELSE IF operator = False THEN FALSE
    ELSE Eval(operator.Left, d) = Eval(operator.Right, d)

\* The environment AstEvaluationEnvironment builds: a new one, with an
\* evaluator added for the custom lists, the data access and the payload.
NoEvaluators == [f \in {} |-> Nil]

NewEnvironment(organizationId, payload) ==
    [f \in {"CustomListAccess", "DatabaseAccess", "Payload"} |->
        CASE f = "CustomListAccess" ->
                [organizationId |-> organizationId, payload |-> Nil]
          [] f = "DatabaseAccess" ->
                [organizationId |-> organizationId, payload |-> payload]
          [] f = "Payload" ->
                [organizationId |-> "", payload |-> payload]]

\* The comparison an EqBool makes once both its operands are evaluated.
Compare == [op |-> "=="]

InitConcurrent ==
    /\ component = "concurrent"
    /\ storageClients = Nil
    /\ gcsClient = Nil
    /\ faithful = Nil
    /\ database = Nil
    /\ pc = "running"
    /\ tree \in OperatorTrees(MaxDepth)
    /\ registry = operatorFromType
    /\ procs = [p \in Evaluations |->
                  [pc |-> "start", environment |-> NoEvaluators,
                   payload |-> PayloadOf(p), work |-> <<>>, values |-> <<>>,
                   result |-> Nil]]
    /\ evaluated = Nil
    /\ evaluation = Nil
    /\ arguments = Nil
    /\ ctx = Nil
    /\ repoCalls = Nil
    /\ results = Nil
    /\ allErrs = Nil
    /\ stack = Nil
    /\ jsonBytes = Nil
    /\ tamperedAt = Nil
    /\ decoded = Nil
    /\ rootName = Nil
    /\ path = Nil
    /\ calls = 0
    /\ field = Nil

\* usecases.AstEvaluationEnvironment(organizationId, payload): the evaluation
\* gets an environment of its own.
AstEvaluationEnvironment(p) ==
    /\ component = "concurrent"
    /\ procs[p].pc = "start"
    /\ procs' = [procs EXCEPT
           ![p].environment = NewEnvironment(OrganizationOf(p), procs[p].payload),
           ![p].pc = "ready"]
    /\ UNCHANGED <<component, storageClients, gcsClient, faithful, database, registry, evaluated, repoCalls, ctx, results, allErrs,
                   stack, pc, tree, jsonBytes, tamperedAt, decoded, arguments,
                   evaluation, rootName, path, calls, field>>

\* The root operator's Eval(d) is called.
EvalCall(p) ==
    /\ component = "concurrent"
    /\ procs[p].pc = "ready"
    /\ procs' = [procs EXCEPT ![p].work = <<tree>>, ![p].values = <<>>,
                              ![p].pc = "evaluating"]
    /\ UNCHANGED <<component, storageClients, gcsClient, faithful, database, registry, evaluated, repoCalls, ctx, results, allErrs,
                   stack, pc, tree, jsonBytes, tamperedAt, decoded, arguments,
                   evaluation, rootName, path, calls, field>>

\* What one step of Eval leaves to do and has computed: True and False yield
\* their value, an EqBool has its Left evaluated, then its Right, then
\* compares the two.
WorkAfter(work) ==
    IF Head(work).op = "EqBool"
    THEN <<Head(work).Left, Head(work).Right, Compare>> \o Tail(work)
    ELSE Tail(work)

ValuesAfter(work, values) ==
    CASE Head(work) = True -> Append(values, TRUE)
      [] Head(work) = False -> Append(values, FALSE)
      [] Head(work) = Compare ->
            Append(SubSeq(values, 1, Len(values) - 2),
                   values[Len(values) - 1] = values[Len(values)])
      [] OTHER -> values

\* A step of Eval that keeps its intermediate values with the first
\* evaluation.
EvalStep_ValuesShared(p) ==
    /\ component = "concurrent"
    /\ procs[p].pc = "evaluating"
    /\ procs[p].work # <<>>
    /\ procs' = [procs EXCEPT
           ![p].work = WorkAfter(procs[p].work),
           ![1].values = ValuesAfter(procs[p].work, procs[1].values)]
    /\ UNCHANGED <<component, storageClients, gcsClient, faithful, database, registry, evaluated, repoCalls, ctx, results, allErrs,
                   stack, pc, tree, jsonBytes, tamperedAt, decoded, arguments,
                   evaluation, rootName, path, calls, field>>

\* One step of Eval, on the evaluation's own stack.
EvalStep(p) ==
    /\ component = "concurrent"
    /\ procs[p].pc = "evaluating"
    /\ procs[p].work # <<>>
    /\ procs' = [procs EXCEPT
           ![p].work = WorkAfter(procs[p].work),
           ![p].values = ValuesAfter(procs[p].work, procs[p].values)]
    /\ UNCHANGED <<component, storageClients, gcsClient, faithful, database, registry, evaluated, repoCalls, ctx, results, allErrs,
                   stack, pc, tree, jsonBytes, tamperedAt, decoded, arguments,
                   evaluation, rootName, path, calls, field>>

\* The root operator's Eval returns.
EvalReturn(p) ==
    /\ component = "concurrent"
    /\ procs[p].pc = "evaluating"
    /\ procs[p].work = <<>>
    /\ procs' = [procs EXCEPT ![p].result = BoolV(procs[p].values[1]),
                              ![p].pc = "done"]
    /\ UNCHANGED <<component, storageClients, gcsClient, faithful, database, registry, evaluated, repoCalls, ctx, results, allErrs,
                   stack, pc, tree, jsonBytes, tamperedAt, decoded, arguments,
                   evaluation, rootName, path, calls, field>>

NextConcurrent ==
    \E p \in Evaluations :
        \/ AstEvaluationEnvironment(p)
        \/ EvalCall(p)
        \/ EvalStep(p)
        \/ EvalReturn(p)

SpecConcurrent == InitConcurrent /\ [][NextConcurrent]_vars

\* C19: two evaluations of the same operator tree that run concurrently, each
\* with its own evaluation environment and payload, interleave in any order
\* without changing either result: each returns what it returns when run
\* alone, and no step of one evaluation writes state read by the other: the
\* tree, the operator registry and the other evaluation's environment and
\* stack are never written.
ConcurrentEvaluationsIndependent ==
    /\ [](component = "concurrent" =>
            \A p \in Evaluations :
                procs[p].pc = "done" =>
                    procs[p].result = BoolV(Eval(tree, procs[p].payload)))
    /\ [][component = "concurrent" =>
            /\ tree' = tree
            /\ registry' = registry
            /\ \A p \in Evaluations :
                  procs'[p] # procs[p] =>
                      \A q \in Evaluations \ {p} : procs'[q] = procs[q]]_vars

\* One evaluation of a nested tree has returned while the other, on the same
\* tree, is in the middle of its own, an operand already evaluated.
EvaluationsInterleaved ==
    /\ component = "concurrent"
    /\ tree.op = "EqBool"
    /\ tree.Left.op = "EqBool"
    /\ procs[1].pc = "done"
    /\ procs[2].pc = "evaluating"
    /\ procs[2].values # <<>>
    /\ procs[2].work # <<>>

-----------------------------------------------------------------------------
(***************************************************************************)
(* Operator codec: the operand slots a decode error names                  *)
(***************************************************************************)

\* The operand slots an error chain names, outermost first.
SlotsNamed(err) ==
    LET instantiate == SelectSeq(err, LAMBDA e : e.msg = "unable to instantiate")
    IN  [i \in DOMAIN instantiate |-> instantiate[i].names]

\* The operand slots on the way from the root to a position.
SlotsTo(position) ==
    [i \in DOMAIN position |-> IF position[i] = "left" THEN "Left" ELSE "Right"]

\* Of two positions, the one the decoder reaches first: a node before its
\* operands, a left operand before the right one.
ReachedFirst(p, q) ==
    IF \A i \in DOMAIN p : i <= Len(q) /\ p[i] = q[i] THEN p
    ELSE IF \A i \in DOMAIN q : i <= Len(p) /\ p[i] = q[i] THEN q
    ELSE LET k == CHOOSE i \in DOMAIN p :
                     /\ i <= Len(q)
                     /\ p[i] # q[i]
                     /\ \A h \in 1..(i - 1) : p[h] = q[h]
         IN  IF p[k] = "left" THEN p ELSE q

\* C20: decode failures identify the operand slot: when decoding an EqBool
\* whose left operand fails to decode the returned error names the Left
\* operand, when only the right operand fails it names the Right operand, and
\* this holds at every nesting depth, so the error chain of a failure deep in
\* the tree names every slot on the path from the root to the failing node.
DecodeErrorNamesSlots ==
    /\ (component = "codec" /\ pc = "decoded" /\ tamperedAt # Nil) =>
           SlotsNamed(decoded.err) = SlotsTo(tamperedAt.at)
    /\ (component = "codec" /\ pc = "encoded" /\ tamperedAt # Nil) =>
           \A q \in Positions(jsonBytes), t \in Unregistered :
               SlotsNamed(unmarshalOperatorBool(WithTypeAt(jsonBytes, q, t)).err)
                   = SlotsTo(ReachedFirst(tamperedAt.at, q))

\* A tree with an unregistered node in the left operand of the root's right
\* operand has been decoded into an error naming Right, then Left.
FailureInRightLeftDecoded ==
    /\ component = "codec"
    /\ pc = "decoded"
    /\ tamperedAt = [at |-> <<"right", "left">>]
    /\ SlotsNamed(decoded.err) = <<"Right", "Left">>

-----------------------------------------------------------------------------
(***************************************************************************)
(* The whole program: one of the components, chosen at the start.          *)
(***************************************************************************)

-----------------------------------------------------------------------------
(***************************************************************************)
(* ScenarioPublisher (src/usecases/scenarios/scenario_publisher.go)        *)
(***************************************************************************)

\* Most calls of PublishOrUnpublishIteration made on the scenario.
MaxCalls == 3

\* A *string or *int: nil, or a pointer to a value.
NilPointer == <<>>

PointerTo(value) == <<value>>

\* The iterations of the scenario: two with a version, one draft.
ScenarioIterations ==
    {[Id |-> "iteration_1", Version |-> PointerTo(1)],
     [Id |-> "iteration_2", Version |-> PointerTo(2)],
     [Id |-> "draft", Version |-> NilPointer]}

\* Scenario.LiveVersionID as a caller can hand it in: the value the caller
\* last read, which need not be the stored one.
LiveVersionIDs == {NilPointer, PointerTo("iteration_1"), PointerTo("iteration_2")}

\* models.ScenarioAndIteration, with the fields the publisher reads.
ScenarioAndIterations ==
    {[Scenario |-> [LiveVersionID |-> liveVersionId], Iteration |-> iteration] :
        liveVersionId \in LiveVersionIDs, iteration \in ScenarioIterations}

\* models.PublicationAction, with a value that is neither Publish nor Unpublish.
PublicationActions == {"publish", "unpublish", "unknown"}

\* The sentinel errors the publisher wraps, and a failure of a repository.
BadParameterError == Err("BadParameter")

ErrScenarioIterationIsDraft == Err("ScenarioIterationIsDraft")

ErrScenarioIterationNotValid == Err("ScenarioIterationNotValid")

RepositoryError == Err("Repository")

\* The repository calls one PublishOrUnpublishIteration makes at most: three
\* in unpublishOldIteration and three in publishNewIteration.
RepositoryCallsPerPublication == 3 + 3

\* Which repository call of the running operation fails, counted from the
\* first; 0 when none does.
Failings == 0..RepositoryCallsPerPublication

\* The rows the repositories keep for the scenario, with the calls the running
\* operation has made so far.
Rows(liveVersionId, publications, made) ==
    [LiveVersionID |-> liveVersionId, Publications |-> publications, Calls |-> made]

\* One call on a collaborator, as logged.
RepoCall(fn, action, iteration) == [fn |-> fn, action |-> action, iteration |-> iteration]

RepositoryCallsMade(db) ==
    Cardinality({i \in DOMAIN db.Calls : db.Calls[i].fn # "Validate"})

\* Whether the repository call the operation is about to make is the failing one.
Fails(db, failing) == RepositoryCallsMade(db) + 1 = failing

Logged(db, call) == [db EXCEPT !.Calls = Append(@, call)]

\* ScenarioPublicationsRepository.CreateScenarioPublication: a new row with
\* the given id, or an error and no row.
CreateScenarioPublication(db, iteration, action, id, failing) ==
    LET logged == Logged(db, RepoCall("CreateScenarioPublication", action, PointerTo(iteration)))
    IN  IF Fails(db, failing) THEN [db |-> logged, err |-> <<RepositoryError>>]
        ELSE [db |-> [logged EXCEPT !.Publications =
                        Append(@, [Id |-> id, ScenarioIterationId |-> iteration,
                                   PublicationAction |-> action])],
              err |-> NoError]

\* Repository.UpdateScenarioLiveIterationId: the live id is replaced, or an
\* error and no change.
UpdateScenarioLiveIterationId(db, scenarioIterationId, failing) ==
    LET logged == Logged(db, RepoCall("UpdateScenarioLiveIterationId", "", scenarioIterationId))
    IN  IF Fails(db, failing) THEN [db |-> logged, err |-> <<RepositoryError>>]
        ELSE [db |-> [logged EXCEPT !.LiveVersionID = scenarioIterationId], err |-> NoError]

\* ScenarioPublicationsRepository.GetScenarioPublicationById: the row of that
\* id, or an error.
GetScenarioPublicationById(db, id, failing) ==
    LET logged == Logged(db, RepoCall("GetScenarioPublicationById", "", NilPointer))
    IN  IF Fails(db, failing) \/ id \notin DOMAIN db.Publications
        THEN [db |-> logged, publication |-> Nil, err |-> <<RepositoryError>>]
        ELSE [db |-> logged, publication |-> db.Publications[id], err |-> NoError]

\* pure_utils.NewPrimaryKey: an id no row has yet.
NewPrimaryKey(db) == Len(db.Publications) + 1


\* What the publisher's functions return, with the rows as they leave them.
PublisherReturned(db, publications, err) ==
    [db |-> db, publications |-> publications, err |-> err]

\* An unpublishOldIteration that records the Unpublish and leaves the live id
\* as it is.
unpublishOldIteration_LiveIdKept(db, liveVersionId, failing) ==
    IF liveVersionId = NilPointer THEN PublisherReturned(db, <<>>, NoError)
    ELSE LET newScenarioPublicationId == NewPrimaryKey(db)
             created == CreateScenarioPublication(db, liveVersionId[1], "unpublish",
                                                  newScenarioPublicationId, failing)
             read == GetScenarioPublicationById(created.db, newScenarioPublicationId, failing)
         IN  IF created.err # NoError THEN PublisherReturned(created.db, <<>>, created.err)
             ELSE PublisherReturned(read.db, <<read.publication>>, read.err)

\* unpublishOldIteration: nothing to do when no iteration is live; otherwise
\* create the Unpublish row, clear the live id, read the row back.
unpublishOldIteration(db, liveVersionId, failing) ==
    IF liveVersionId = NilPointer THEN PublisherReturned(db, <<>>, NoError)
    ELSE LET newScenarioPublicationId == NewPrimaryKey(db)
             created == CreateScenarioPublication(db, liveVersionId[1], "unpublish",
                                                  newScenarioPublicationId, failing)
             updated == UpdateScenarioLiveIterationId(created.db, NilPointer, failing)
             read == GetScenarioPublicationById(updated.db, newScenarioPublicationId, failing)
         IN  IF created.err # NoError THEN PublisherReturned(created.db, <<>>, created.err)
             ELSE IF updated.err # NoError THEN PublisherReturned(updated.db, <<>>, updated.err)
             ELSE PublisherReturned(read.db, <<read.publication>>, read.err)

\* A publishNewIteration that sets the live id before the Publish row is
\* created and read back.
publishNewIteration_LiveIdFirst(db, scenarioIterationId, failing) ==
    LET newScenarioPublicationId == NewPrimaryKey(db)
        updated == UpdateScenarioLiveIterationId(db, PointerTo(scenarioIterationId), failing)
        created == CreateScenarioPublication(updated.db, scenarioIterationId, "publish",
                                             newScenarioPublicationId, failing)
        read == GetScenarioPublicationById(created.db, newScenarioPublicationId, failing)
    IN  IF updated.err # NoError THEN PublisherReturned(updated.db, <<>>, updated.err)
        ELSE IF created.err # NoError THEN PublisherReturned(created.db, <<>>, created.err)
        ELSE IF read.err # NoError THEN PublisherReturned(read.db, <<>>, read.err)
        ELSE PublisherReturned(read.db, <<read.publication>>, NoError)

\* publishNewIteration: create the Publish row, read it back, set the live id.
\* publications holds the one row returned, or nothing with an error.
publishNewIteration(db, scenarioIterationId, failing) ==
    LET newScenarioPublicationId == NewPrimaryKey(db)
        created == CreateScenarioPublication(db, scenarioIterationId, "publish",
                                             newScenarioPublicationId, failing)
        read == GetScenarioPublicationById(created.db, newScenarioPublicationId, failing)
        updated == UpdateScenarioLiveIterationId(read.db, PointerTo(scenarioIterationId), failing)
    IN  IF created.err # NoError THEN PublisherReturned(created.db, <<>>, created.err)
        ELSE IF read.err # NoError THEN PublisherReturned(read.db, <<>>, read.err)
        ELSE IF updated.err # NoError THEN PublisherReturned(updated.db, <<>>, updated.err)
        ELSE PublisherReturned(updated.db, <<read.publication>>, NoError)

\* ValidateScenarioIteration.Validate through ScenarioValidationToError: the
\* call is logged; valid says whether it finds the iteration valid.
Validated(db, iterationId) == Logged(db, RepoCall("Validate", "", PointerTo(iterationId)))

\* An Unpublish case without the test that the iteration is the live one.
UnpublishCase_LiveUnchecked(db, scenarioAndIteration, failing) ==
    LET iterationId == scenarioAndIteration.Iteration.Id
        old == unpublishOldIteration(db, PointerTo(iterationId), failing)
    IN  IF old.err # NoError THEN PublisherReturned(old.db, <<>>, old.err)
        ELSE PublisherReturned(old.db, old.publications, NoError)

\* case models.Unpublish
UnpublishCase(db, scenarioAndIteration, failing) ==
    LET iterationId == scenarioAndIteration.Iteration.Id
        liveVersionId == scenarioAndIteration.Scenario.LiveVersionID
        old == unpublishOldIteration(db, PointerTo(iterationId), failing)
    IN  IF liveVersionId = NilPointer \/ liveVersionId[1] # iterationId
        THEN PublisherReturned(db, <<>>,
                 Errorf("unable to unpublish: scenario iteration is not currently live",
                        <<BadParameterError>>))
        ELSE IF old.err # NoError THEN PublisherReturned(old.db, <<>>, old.err)
        ELSE PublisherReturned(old.db, old.publications, NoError)


\* The errors a Publish is refused with.
NotValid(db) ==
    PublisherReturned(db, <<>>,
        Errorf("Error validating scenario iteration", <<ErrScenarioIterationNotValid>>))

IsDraft(db) ==
    PublisherReturned(db, <<>>,
        Errorf("input scenario iteration is a draft in PublishOrUnpublishIteration",
               <<ErrScenarioIterationIsDraft>>))

\* A Publish case that publishes the new iteration before it unpublishes the
\* live one.
PublishCase_NewBeforeOld(db, scenarioAndIteration, valid, failing) ==
    LET iterationId == scenarioAndIteration.Iteration.Id
        liveVersionId == scenarioAndIteration.Scenario.LiveVersionID
        validated == Validated(db, iterationId)
        new == publishNewIteration(validated, iterationId, failing)
        old == unpublishOldIteration(new.db, liveVersionId, failing)
    IN  IF scenarioAndIteration.Iteration.Version = NilPointer THEN IsDraft(db)
        ELSE IF liveVersionId # NilPointer /\ liveVersionId[1] = iterationId
        THEN PublisherReturned(db, <<>>, NoError)
        ELSE IF ~valid THEN NotValid(validated)
        ELSE IF new.err # NoError THEN PublisherReturned(new.db, <<>>, new.err)
        ELSE IF old.err # NoError THEN PublisherReturned(old.db, <<>>, old.err)
        ELSE PublisherReturned(old.db, new.publications \o old.publications, NoError)

\* A Publish case that validates the iteration before it looks whether the
\* iteration is the live one.
PublishCase_ValidatesFirst(db, scenarioAndIteration, valid, failing) ==
    LET iterationId == scenarioAndIteration.Iteration.Id
        liveVersionId == scenarioAndIteration.Scenario.LiveVersionID
        validated == Validated(db, iterationId)
        old == unpublishOldIteration(validated, liveVersionId, failing)
        new == publishNewIteration(old.db, iterationId, failing)
    IN  IF scenarioAndIteration.Iteration.Version = NilPointer THEN IsDraft(db)
        ELSE IF ~valid THEN NotValid(validated)
        ELSE IF liveVersionId # NilPointer /\ liveVersionId[1] = iterationId
        THEN PublisherReturned(validated, <<>>, NoError)
        ELSE IF old.err # NoError THEN PublisherReturned(old.db, <<>>, old.err)
        ELSE IF new.err # NoError THEN PublisherReturned(new.db, <<>>, new.err)
        ELSE PublisherReturned(new.db, old.publications \o new.publications, NoError)

\* case models.Publish: a draft is refused; the live iteration is left as it
\* is; otherwise validate, unpublish the live iteration, publish the new one.
\* tracking.TrackEvent keeps no state of the scenario.
PublishCase(db, scenarioAndIteration, valid, failing) ==
    LET iterationId == scenarioAndIteration.Iteration.Id
        liveVersionId == scenarioAndIteration.Scenario.LiveVersionID
        validated == Validated(db, iterationId)
        old == unpublishOldIteration(validated, liveVersionId, failing)
        new == publishNewIteration(old.db, iterationId, failing)
    IN  IF scenarioAndIteration.Iteration.Version = NilPointer THEN IsDraft(db)
        ELSE IF liveVersionId # NilPointer /\ liveVersionId[1] = iterationId
        THEN PublisherReturned(db, <<>>, NoError)
        ELSE IF ~valid THEN NotValid(validated)
        ELSE IF old.err # NoError THEN PublisherReturned(old.db, <<>>, old.err)
        ELSE IF new.err # NoError THEN PublisherReturned(new.db, <<>>, new.err)
        ELSE PublisherReturned(new.db, old.publications \o new.publications, NoError)

\* switch publicationAction
PublishOrUnpublishIteration(db, scenarioAndIteration, publicationAction, valid, failing) ==
    CASE publicationAction = "unpublish" -> UnpublishCase(db, scenarioAndIteration, failing)
      [] publicationAction = "publish" -> PublishCase(db, scenarioAndIteration, valid, failing)
      [] OTHER -> PublisherReturned(db, <<>>,
                      Errorf("unknown publication action", <<BadParameterError>>))

InitPublisher ==
    /\ component = "publisher"
    /\ storageClients = Nil
    /\ gcsClient = Nil
    /\ pc = "idle"
    /\ database = [LiveVersionID |-> NilPointer, Publications |-> <<>>]
    /\ faithful = TRUE
    /\ calls = 0
    /\ arguments = Nil
    /\ results = Nil
    /\ repoCalls = <<>>
    /\ registry = Nil
    /\ procs = Nil
    /\ evaluated = Nil
    /\ ctx = Nil
    /\ allErrs = Nil
    /\ stack = Nil
    /\ rootName = Nil
    /\ path = Nil
    /\ field = Nil
    /\ evaluation = Nil
    /\ tree = Nil
    /\ jsonBytes = Nil
    /\ tamperedAt = Nil
    /\ decoded = Nil

\* One call of PublishOrUnpublishIteration, from its first line to its return.
CallPublisher ==
    /\ component = "publisher"
    /\ calls < MaxCalls
    /\ \E scenarioAndIteration \in ScenarioAndIterations,
          publicationAction \in PublicationActions,
          valid \in BOOLEAN, failing \in Failings :
          LET out == PublishOrUnpublishIteration(
                         Rows(database.LiveVersionID, database.Publications, <<>>),
                         scenarioAndIteration, publicationAction, valid, failing)
          IN  /\ database' = [LiveVersionID |-> out.db.LiveVersionID,
                              Publications |-> out.db.Publications]
              /\ repoCalls' = out.db.Calls
              /\ results' = [publications |-> out.publications, err |-> out.err]
              /\ arguments' = [scenarioAndIteration |-> scenarioAndIteration,
                               publicationAction |-> publicationAction,
                               valid |-> valid]
              /\ faithful' = (/\ faithful
                              /\ scenarioAndIteration.Scenario.LiveVersionID = database.LiveVersionID
                              /\ out.err = NoError)
    /\ calls' = calls + 1
    /\ UNCHANGED <<component, storageClients, gcsClient, pc, registry, procs, evaluated, ctx, allErrs, stack, rootName,
                   path, field, evaluation, tree, jsonBytes, tamperedAt, decoded>>

NextPublisher == CallPublisher

SpecPublisher == InitPublisher /\ [][NextPublisher]_vars


\* errors.Is(err, target) on a chain of wrapped errors.
ErrorsIs(err, target) == \E i \in DOMAIN err : err[i] = target

\* The last call made on the publisher: its action, the iteration it names
\* and the live id it was given.
PublisherCalled(action) ==
    /\ component = "publisher"
    /\ calls > 0
    /\ arguments.publicationAction = action

CalledIteration == arguments.scenarioAndIteration.Iteration

GivenLiveVersionID == arguments.scenarioAndIteration.Scenario.LiveVersionID

LastPublication == database.Publications[Len(database.Publications)]

\* C23: after calls that were each given the current live id and succeeded,
\* the live id is X exactly when the most recently created publication is a
\* Publish of X, and is nil exactly when there is no publication or the most
\* recent one is an Unpublish.
LiveIdFollowsLastPublication ==
    (component = "publisher" /\ faithful) =>
        /\ \A iteration \in ScenarioIterations :
              (database.LiveVersionID = PointerTo(iteration.Id)) <=>
                  (/\ database.Publications # <<>>
                   /\ LastPublication.PublicationAction = "publish"
                   /\ LastPublication.ScenarioIterationId = iteration.Id)
        /\ (database.LiveVersionID = NilPointer) <=>
               (\/ database.Publications = <<>>
                \/ LastPublication.PublicationAction = "unpublish")

\* iteration_1 was published, replaced by iteration_2, and iteration_2 was
\* unpublished: four publications, the last an Unpublish, nothing live.
PublishedReplacedUnpublished ==
    /\ component = "publisher"
    /\ faithful
    /\ Len(database.Publications) = 4
    /\ database.Publications[1].ScenarioIterationId = "iteration_1"
    /\ LastPublication = [Id |-> 4, ScenarioIterationId |-> "iteration_2",
                          PublicationAction |-> "unpublish"]
    /\ database.LiveVersionID = NilPointer


\* Whether a logged call of the running operation writes to a repository.
Writes(call) == call.fn \in {"CreateScenarioPublication", "UpdateScenarioLiveIterationId"}

\* The sentinel error the given call is rejected with before any step of it,
\* and NoError when the call is not one of the rejected ones: an Unpublish of
\* an iteration that is not the given live one, a Publish of a draft, a
\* Publish of an iteration found invalid, an unknown action.
RejectedWith(args) ==
    LET iteration == args.scenarioAndIteration.Iteration
        liveVersionId == args.scenarioAndIteration.Scenario.LiveVersionID
    IN  CASE args.publicationAction = "unpublish" ->
                 IF liveVersionId # PointerTo(iteration.Id)
                 THEN <<BadParameterError>> ELSE NoError
          [] args.publicationAction = "publish" ->
                 IF iteration.Version = NilPointer THEN <<ErrScenarioIterationIsDraft>>
                 ELSE IF liveVersionId = PointerTo(iteration.Id) THEN NoError
                 ELSE IF ~args.valid THEN <<ErrScenarioIterationNotValid>>
                 ELSE NoError
          [] OTHER -> <<BadParameterError>>

\* C24: a rejected call changes nothing: it returns an error wrapping the
\* sentinel of its case, creates no publication, leaves the live id as it was
\* and makes no writing call on a repository.
RejectedCallChangesNothing ==
    [][(component = "publisher" /\ RejectedWith(arguments') # NoError) =>
          /\ results'.err # NoError
          /\ ErrorsIs(results'.err, RejectedWith(arguments')[1])
          /\ results'.publications = <<>>
          /\ database' = database
          /\ \A i \in DOMAIN repoCalls' : ~Writes(repoCalls'[i])]_vars

\* While iteration_1 is live, an Unpublish of iteration_2 given the current
\* live id has been rejected.
UnpublishOfOtherIterationRejected ==
    /\ PublisherCalled("unpublish")
    /\ CalledIteration.Id = "iteration_2"
    /\ GivenLiveVersionID = PointerTo("iteration_1")
    /\ database.LiveVersionID = PointerTo("iteration_1")
    /\ Len(database.Publications) = 1
    /\ ErrorsIs(results.err, BadParameterError)

\* The writing repository calls of the running operation, in order.
WritesMade == SelectSeq(repoCalls, Writes)

\* The actions and iterations of a list of publications, in order.
Published(list) ==
    [i \in DOMAIN list |-> <<list[i].PublicationAction, list[i].ScenarioIterationId>>]

\* Whether the last call was a Publish of a versioned iteration other than the
\* given live one, found valid, that returned no error.
PublishSucceeded ==
    /\ PublisherCalled("publish")
    /\ CalledIteration.Version # NilPointer
    /\ GivenLiveVersionID # PointerTo(CalledIteration.Id)
    /\ results.err = NoError

\* C25: a successful Publish of iteration N given the live iteration L first
\* creates the Unpublish of L and clears the live id, then creates the Publish
\* of N and sets the live id to N, and returns [Unpublish(L), Publish(N)];
\* given no live iteration it creates no Unpublish and returns [Publish(N)].
PublishUnpublishesLiveIterationFirst ==
    PublishSucceeded =>
        LET new == CalledIteration.Id
        IN  IF GivenLiveVersionID # NilPointer
            THEN /\ WritesMade =
                       <<RepoCall("CreateScenarioPublication", "unpublish", GivenLiveVersionID),
                         RepoCall("UpdateScenarioLiveIterationId", "", NilPointer),
                         RepoCall("CreateScenarioPublication", "publish", PointerTo(new)),
                         RepoCall("UpdateScenarioLiveIterationId", "", PointerTo(new))>>
                 /\ Published(results.publications) =
                       <<<<"unpublish", GivenLiveVersionID[1]>>, <<"publish", new>>>>
                 /\ SubSeq(database.Publications, Len(database.Publications) - 1,
                           Len(database.Publications)) = results.publications
                 /\ database.LiveVersionID = PointerTo(new)
            ELSE /\ WritesMade =
                       <<RepoCall("CreateScenarioPublication", "publish", PointerTo(new)),
                         RepoCall("UpdateScenarioLiveIterationId", "", PointerTo(new))>>
                 /\ Published(results.publications) = <<<<"publish", new>>>>
                 /\ LastPublication = results.publications[1]
                 /\ database.LiveVersionID = PointerTo(new)

\* iteration_2 was published while iteration_1 was live.
LiveIterationReplaced ==
    /\ PublishSucceeded
    /\ faithful
    /\ CalledIteration.Id = "iteration_2"
    /\ GivenLiveVersionID = PointerTo("iteration_1")
    /\ Len(results.publications) = 2
    /\ Len(database.Publications) = 3


\* Whether the arguments are a Publish of a versioned iteration that is the
\* scenario's live iteration, as stored and as given.
PublishOfLiveIteration(args, db) ==
    /\ args.publicationAction = "publish"
    /\ args.scenarioAndIteration.Iteration.Version # NilPointer
    /\ args.scenarioAndIteration.Scenario.LiveVersionID =
           PointerTo(args.scenarioAndIteration.Iteration.Id)
    /\ db.LiveVersionID = args.scenarioAndIteration.Scenario.LiveVersionID

\* C26: a Publish of the versioned iteration that is already live returns an
\* empty list and no error, calls neither the validation nor a repository,
\* creates no publication and leaves the live id as it is, at every
\* repetition.
PublishOfLiveIterationIsIdempotent ==
    [][(component = "publisher" /\ PublishOfLiveIteration(arguments', database)) =>
          /\ results' = [publications |-> <<>>, err |-> NoError]
          /\ repoCalls' = <<>>
          /\ database' = database]_vars

\* iteration_1 was published once and then published again twice: one
\* publication, still live.
LiveIterationPublishedAgainTwice ==
    /\ PublisherCalled("publish")
    /\ calls = 3
    /\ faithful
    /\ PublishOfLiveIteration(arguments, database)
    /\ database.LiveVersionID = PointerTo("iteration_1")
    /\ database.Publications = <<[Id |-> 1, ScenarioIterationId |-> "iteration_1",
                                  PublicationAction |-> "publish"]>>
    /\ results = [publications |-> <<>>, err |-> NoError]

\* Whether the running operation called UpdateScenarioLiveIterationId with the
\* given id as its i-th call.
SetsLiveIdAt(made, i, id) ==
    made[i] = RepoCall("UpdateScenarioLiveIterationId", "", PointerTo(id))

\* C27: a Publish that returns an error leaves the live id at its previous
\* value or at nil; the call that sets the live id to the new iteration is the
\* last call of the operation, made right after the Publish publication was
\* created and read back, and when the operation fails that call is either
\* not made or the one that failed.
FailedPublishLeavesLiveId ==
    [][(component = "publisher" /\ arguments'.publicationAction = "publish") =>
          LET new == arguments'.scenarioAndIteration.Iteration.Id
          IN  /\ \A i \in DOMAIN repoCalls' :
                    SetsLiveIdAt(repoCalls', i, new) =>
                        /\ i = Len(repoCalls')
                        /\ i > 2
                        /\ repoCalls'[i - 2] =
                               RepoCall("CreateScenarioPublication", "publish", PointerTo(new))
                        /\ repoCalls'[i - 1].fn = "GetScenarioPublicationById"
              /\ results'.err # NoError =>
                    database'.LiveVersionID \in {database.LiveVersionID, NilPointer}]_vars

\* A Publish of iteration_2 while iteration_1 was live failed at reading the
\* new publication back: both publications exist and nothing is live.
PublishFailedAtReadBack ==
    /\ PublisherCalled("publish")
    /\ CalledIteration.Id = "iteration_2"
    /\ GivenLiveVersionID = PointerTo("iteration_1")
    /\ results.err = <<RepositoryError>>
    /\ Len(repoCalls) = 6
    /\ repoCalls[6].fn = "GetScenarioPublicationById"
    /\ Len(database.Publications) = 3
    /\ LastPublication.PublicationAction = "publish"
    /\ database.LiveVersionID = NilPointer

-----------------------------------------------------------------------------
(***************************************************************************)
(* GcsRepositoryImpl (src/repositories/gcs_repository.go)                  *)
(***************************************************************************)

\* Most operations called on the repository.
MaxOperations == 3

BucketNames == {"uploads"}

FileNames == {"a.csv", "b.csv"}

\* What an operation of the storage library answers.
StorageAnswers == {NoError, <<UnderlyingIOError>>}

\* getGCSClient: the cached client when there is one, otherwise a new client,
\* cached.  made is the list of clients after the call, client the one handed
\* to the operation.
getGCSClient(cached, made) ==
    IF cached # NilPointer THEN [cached |-> cached, made |-> made, client |-> cached[1]]
    ELSE [cached |-> PointerTo(Len(made) + 1), made |-> Append(made, "open"),
          client |-> Len(made) + 1]

\* client.Close()
Close(made, client) == [made EXCEPT ![client] = "closed"]

InitGcs ==
    /\ component = "gcs"
    /\ pc = "idle"
    /\ gcsClient = NilPointer
    /\ storageClients = <<>>
    /\ calls = 0
    /\ arguments = Nil
    /\ results = Nil
    /\ database = Nil
    /\ faithful = Nil
    /\ repoCalls = Nil
    /\ registry = Nil
    /\ procs = Nil
    /\ evaluated = Nil
    /\ ctx = Nil
    /\ allErrs = Nil
    /\ stack = Nil
    /\ rootName = Nil
    /\ path = Nil
    /\ field = Nil
    /\ evaluation = Nil
    /\ tree = Nil
    /\ jsonBytes = Nil
    /\ tamperedAt = Nil
    /\ decoded = Nil

\* An operation of the repository on a file: it takes the client from
\* getGCSClient, uses it, and closes it on return when it defers Close.
\* results records the client the operation used and what it returned.
Operation(fn, defersClose) ==
    /\ calls < MaxOperations
    /\ \E bucketName \in BucketNames, fileName \in FileNames, err \in StorageAnswers :
          LET got == getGCSClient(gcsClient, storageClients)
          IN  /\ gcsClient' = got.cached
              /\ storageClients' = IF defersClose THEN Close(got.made, got.client)
                                   ELSE got.made
              /\ arguments' = [fn |-> fn, bucketName |-> bucketName, fileName |-> fileName]
              /\ results' = [client |-> got.client, state |-> got.made[got.client],
                             err |-> err]
    /\ calls' = calls + 1
    /\ UNCHANGED <<component, pc, database, faithful, repoCalls, registry, procs, evaluated,
                   ctx, allErrs, stack, rootName, path, field, evaluation, tree, jsonBytes,
                   tamperedAt, decoded>>

ListFiles ==
    /\ component = "gcs"
    /\ pc = "idle"
    /\ Operation("ListFiles", FALSE)

GetFile ==
    /\ component = "gcs"
    /\ pc = "idle"
    /\ Operation("GetFile", FALSE)

MoveFile ==
    /\ component = "gcs"
    /\ pc = "idle"
    /\ Operation("MoveFile", FALSE)

\* OpenStream returns the writer and no error.
OpenStream ==
    /\ component = "gcs"
    /\ pc = "idle"
    /\ Operation("OpenStream", FALSE)
    /\ results'.err = NoError

\* defer gcsClient.Close()
UpdateFileMetadata ==
    /\ component = "gcs"
    /\ pc = "idle"
    /\ Operation("UpdateFileMetadata", TRUE)

\* defer gcsClient.Close()
DeleteFile ==
    /\ component = "gcs"
    /\ pc = "idle"
    /\ Operation("DeleteFile", TRUE)

GenerateSignedUrl ==
    /\ component = "gcs"
    /\ pc = "idle"
    /\ Operation("GenerateSignedUrl", FALSE)

\* storage.NewClient fails and getGCSClient panics, whichever operation called it.
GcsClientPanic ==
    /\ component = "gcs"
    /\ pc = "idle"
    /\ calls < MaxOperations
    /\ gcsClient = NilPointer
    /\ pc' = "panicked"
    /\ UNCHANGED <<component, gcsClient, storageClients, calls, arguments, results, database,
                   faithful, repoCalls, registry, procs, evaluated, ctx, allErrs, stack,
                   rootName, path, field, evaluation, tree, jsonBytes, tamperedAt, decoded>>

NextGcs ==
    \/ ListFiles \/ GetFile \/ MoveFile \/ OpenStream
    \/ UpdateFileMetadata \/ DeleteFile \/ GenerateSignedUrl \/ GcsClientPanic

SpecGcs == InitGcs /\ [][NextGcs]_vars

\* C28: after any sequence of operations, the client getGCSClient has cached
\* and hands to the next operation is an open client.
CachedClientIsOpen ==
    (component = "gcs" /\ gcsClient # NilPointer) =>
        storageClients[gcsClient[1]] = "open"

-----------------------------------------------------------------------------
(***************************************************************************)
(* WebhooksUsecase (src/usecases/webhooks_usecase.go)                      *)
(***************************************************************************)

\* Most requests made to the usecase.
MaxRequests == 3

\* The ids the webhooks repository gives to new webhooks, in order, and an id
\* of no webhook.
WebhookIds == <<"webhook_1", "webhook_2">>

RequestedWebhookIds == {"webhook_1", "webhook_2", "webhook_9"}

\* What enforceSecurity answers, and what the repository and Validate answer.
ForbiddenError == Err("Forbidden")

SecurityAnswers == {NoError, <<ForbiddenError>>}

RepositoryAnswers == {NoError, <<RepositoryError>>}

ValidateAnswers == {NoError, <<BadParameterError>>}

\* models.WebhookRegister as handed in: a url, and a secret or none.
WebhookRegisters ==
    {[Url |-> url, Secret |-> secret] :
        url \in {"https://a.example"}, secret \in {<<>>, <<"supplied">>}}

\* models.WebhookUpdate
WebhookUpdates == {[Url |-> "https://b.example"]}

\* generateSecret: 32 bytes of crypto/rand in hex; entropy stands for the
\* bytes read.
generateSecret(entropy) == <<"generated", entropy>>

\* convoyRepository.GetWebhook: the webhook of that id, or an error.
GetWebhook(db, webhookId, answer) ==
    IF answer # NoError \/ webhookId \notin DOMAIN db
    THEN [webhook |-> Nil, err |-> <<RepositoryError>>]
    ELSE [webhook |-> db[webhookId], err |-> NoError]

\* models.MergeWebhookWithUpdate: the webhook with the fields of the update.
MergeWebhookWithUpdate(webhook, update) == [webhook EXCEPT !.Url = update.Url]

\* One call on a collaborator of the usecase, as logged.
WebhookCall(fn, subject) == [fn |-> fn, subject |-> subject]

\* The state a request leaves: the webhooks stored, the calls it made and the
\* error it returned.
WebhookReturn(db, made, err) ==
    /\ database' = db
    /\ repoCalls' = made
    /\ results' = [err |-> err]

NoWebhooks == [id \in {} |-> Nil]

InitWebhooks ==
    /\ component = "webhooks"
    /\ pc = "idle"
    /\ database = NoWebhooks
    /\ calls = 0
    /\ arguments = Nil
    /\ results = Nil
    /\ repoCalls = <<>>
    /\ gcsClient = Nil
    /\ storageClients = Nil
    /\ faithful = Nil
    /\ registry = Nil
    /\ procs = Nil
    /\ evaluated = Nil
    /\ ctx = Nil
    /\ allErrs = Nil
    /\ stack = Nil
    /\ rootName = Nil
    /\ path = Nil
    /\ field = Nil
    /\ evaluation = Nil
    /\ tree = Nil
    /\ jsonBytes = Nil
    /\ tamperedAt = Nil
    /\ decoded = Nil

\* The id the repository gives to the next webhook.
NextWebhookId(db) ==
    WebhookIds[CHOOSE i \in DOMAIN WebhookIds :
                  /\ WebhookIds[i] \notin DOMAIN db
                  /\ \A j \in 1..(i - 1) : WebhookIds[j] \in DOMAIN db]

\* RegisterWebhook: CanCreateWebhook, input.Validate, a generated secret in
\* place of the input's, then the repository.
RegisterWebhook ==
    /\ component = "webhooks"
    /\ calls < MaxRequests
    /\ \E id \in {WebhookIds[i] : i \in DOMAIN WebhookIds} : id \notin DOMAIN database
    /\ \E input \in WebhookRegisters, canCreate \in SecurityAnswers,
          validated \in ValidateAnswers, registered \in RepositoryAnswers :
          LET withSecret == [input EXCEPT !.Secret = generateSecret(calls)]
              id == NextWebhookId(database)
              check == WebhookCall("CanCreateWebhook", "organization")
              validate == WebhookCall("Validate", input)
              register == WebhookCall("RegisterWebhook", withSecret)
          IN  /\ arguments' = [fn |-> "RegisterWebhook", input |-> input,
                               security |-> canCreate, validated |-> validated,
                               repository |-> registered]
              /\ IF canCreate # NoError THEN WebhookReturn(database, <<check>>, canCreate)
                 ELSE IF validated # NoError
                 THEN WebhookReturn(database, <<check, validate>>, validated)
                 ELSE IF registered # NoError
                 THEN WebhookReturn(database, <<check, validate, register>>,
                                    Errorf("error registering webhook", registered))
                 ELSE WebhookReturn((id :> ([Id |-> id] @@ withSecret)) @@ database,
                                    <<check, validate, register>>, NoError)
    /\ calls' = calls + 1
    /\ UNCHANGED <<component, pc, gcsClient, storageClients, faithful, registry, procs,
                   evaluated, ctx, allErrs, stack, rootName, path, field, evaluation, tree,
                   jsonBytes, tamperedAt, decoded>>


\* The count of a request on a webhook, and what the request leaves unchanged.
WebhookRequestMade ==
    /\ calls' = calls + 1
    /\ UNCHANGED <<component, pc, gcsClient, storageClients, faithful, registry, procs,
                   evaluated, ctx, allErrs, stack, rootName, path, field, evaluation, tree,
                   jsonBytes, tamperedAt, decoded>>

\* The webhooks without the one of the given id.
Removed(db, id) == [other \in DOMAIN db \ {id} |-> db[other]]

\* A DeleteWebhook that asks CanModifyWebhook after the repository deleted.
DeleteWebhook_CheckedAfter ==
    /\ component = "webhooks"
    /\ calls < MaxRequests
    /\ \E webhookId \in RequestedWebhookIds, fetch \in RepositoryAnswers,
          canModify \in SecurityAnswers, deleted \in RepositoryAnswers :
          LET fetched == GetWebhook(database, webhookId, fetch)
              get == WebhookCall("GetWebhook", webhookId)
              check == WebhookCall("CanModifyWebhook", webhookId)
              delete == WebhookCall("DeleteWebhook", webhookId)
          IN  /\ arguments' = [fn |-> "DeleteWebhook", webhookId |-> webhookId,
                               fetch |-> fetch, security |-> canModify,
                               repository |-> deleted]
              /\ IF fetched.err # NoError
                 THEN WebhookReturn(database, <<get>>, <<NotFoundError>>)
                 ELSE IF deleted # NoError
                 THEN WebhookReturn(database, <<get, delete>>, deleted)
                 ELSE WebhookReturn(Removed(database, webhookId), <<get, delete, check>>,
                                    canModify)
    /\ WebhookRequestMade

\* DeleteWebhook: GetWebhook, CanModifyWebhook on the webhook fetched, then
\* the repository's DeleteWebhook of its id.
DeleteWebhook ==
    /\ component = "webhooks"
    /\ calls < MaxRequests
    /\ \E webhookId \in RequestedWebhookIds, fetch \in RepositoryAnswers,
          canModify \in SecurityAnswers, deleted \in RepositoryAnswers :
          LET fetched == GetWebhook(database, webhookId, fetch)
              get == WebhookCall("GetWebhook", webhookId)
              check == WebhookCall("CanModifyWebhook", fetched.webhook.Id)
              delete == WebhookCall("DeleteWebhook", fetched.webhook.Id)
          IN  /\ arguments' = [fn |-> "DeleteWebhook", webhookId |-> webhookId,
                               fetch |-> fetch, security |-> canModify,
                               repository |-> deleted]
              /\ IF fetched.err # NoError
                 THEN WebhookReturn(database, <<get>>, <<NotFoundError>>)
                 ELSE IF canModify # NoError
                 THEN WebhookReturn(database, <<get, check>>, canModify)
                 ELSE IF deleted # NoError
                 THEN WebhookReturn(database, <<get, check, delete>>, deleted)
                 ELSE WebhookReturn(Removed(database, fetched.webhook.Id),
                                    <<get, check, delete>>, NoError)
    /\ WebhookRequestMade

\* UpdateWebhook: GetWebhook, CanModifyWebhook on the webhook fetched, then
\* the repository's UpdateWebhook of the webhook merged with the update.
UpdateWebhook ==
    /\ component = "webhooks"
    /\ calls < MaxRequests
    /\ \E webhookId \in RequestedWebhookIds, update \in WebhookUpdates,
          fetch \in RepositoryAnswers, canModify \in SecurityAnswers,
          updated \in RepositoryAnswers :
          LET fetched == GetWebhook(database, webhookId, fetch)
              merged == MergeWebhookWithUpdate(fetched.webhook, update)
              get == WebhookCall("GetWebhook", webhookId)
              check == WebhookCall("CanModifyWebhook", fetched.webhook.Id)
              change == WebhookCall("UpdateWebhook", merged.Id)
          IN  /\ arguments' = [fn |-> "UpdateWebhook", webhookId |-> webhookId,
                               fetch |-> fetch, security |-> canModify,
                               repository |-> updated]
              /\ IF fetched.err # NoError
                 THEN WebhookReturn(database, <<get>>, <<NotFoundError>>)
                 ELSE IF canModify # NoError
                 THEN WebhookReturn(database, <<get, check>>, canModify)
                 ELSE IF updated # NoError
                 THEN WebhookReturn(database, <<get, check, change>>, updated)
                 ELSE WebhookReturn([database EXCEPT ![merged.Id] = merged],
                                    <<get, check, change>>, NoError)
    /\ WebhookRequestMade

NextWebhooks == RegisterWebhook \/ DeleteWebhook \/ UpdateWebhook

SpecWebhooks == InitWebhooks /\ [][NextWebhooks]_vars


\* The calls that change the webhooks of the repository.
WebhookMutations == {"RegisterWebhook", "DeleteWebhook", "UpdateWebhook"}

\* Whether the i-th call of the request was made right after the two given
\* calls, which are then the only calls before it.
MadeRightAfter(made, i, first, second) ==
    /\ i = 3
    /\ made[1].fn = first
    /\ made[2].fn = second

\* C29: DeleteWebhook and UpdateWebhook call the repository's delete or update
\* only after GetWebhook succeeded and CanModifyWebhook accepted the fetched
\* webhook; a failed fetch returns NotFoundError, a refused check returns the
\* check's error, and neither mutates anything.  RegisterWebhook calls the
\* repository only after CanCreateWebhook and then Validate succeeded, and
\* registers a generated secret, never the one of the input.
WebhookMutationsAreAuthorized ==
    [][component = "webhooks" =>
          LET request == arguments'
              made == repoCalls'
              mutates == \E i \in DOMAIN made : made[i].fn \in WebhookMutations
          IN  IF request.fn = "RegisterWebhook"
              THEN /\ \A i \in DOMAIN made :
                         made[i].fn = "RegisterWebhook" =>
                             /\ MadeRightAfter(made, i, "CanCreateWebhook", "Validate")
                             /\ request.security = NoError
                             /\ request.validated = NoError
                             /\ made[i].subject.Secret = generateSecret(calls)
                             /\ made[i].subject.Secret # request.input.Secret
                   /\ request.security # NoError =>
                         results'.err = request.security /\ ~mutates
                   /\ (request.security = NoError /\ request.validated # NoError) =>
                         results'.err = request.validated /\ ~mutates
                   /\ ~mutates => database' = database
                   /\ \A id \in DOMAIN database' \ DOMAIN database :
                         database'[id].Secret = generateSecret(calls)
              ELSE LET found == /\ request.fetch = NoError
                                /\ request.webhookId \in DOMAIN database
                   IN  /\ \A i \in DOMAIN made :
                             made[i].fn \in WebhookMutations =>
                                 /\ made[i].fn = request.fn
                                 /\ MadeRightAfter(made, i, "GetWebhook", "CanModifyWebhook")
                                 /\ found
                                 /\ request.security = NoError
                                 /\ made[2].subject = request.webhookId
                                 /\ made[i].subject = request.webhookId
                       /\ ~found => results'.err = <<NotFoundError>> /\ ~mutates
                       /\ (found /\ request.security # NoError) =>
                             results'.err = request.security /\ ~mutates
                       /\ ~mutates => database' = database]_vars

\* A webhook was registered with a generated secret, and a DeleteWebhook of
\* it, fetched, has then been refused by CanModifyWebhook: the webhook is
\* still there.
DeleteRefusedAfterRegistration ==
    /\ component = "webhooks"
    /\ calls = 2
    /\ arguments.fn = "DeleteWebhook"
    /\ arguments.webhookId = "webhook_1"
    /\ arguments.fetch = NoError
    /\ results.err = <<ForbiddenError>>
    /\ Len(repoCalls) = 2
    /\ "webhook_1" \in DOMAIN database
    /\ database["webhook_1"].Secret = generateSecret(0)

-----------------------------------------------------------------------------
(***************************************************************************)
(* ScheduledExecutionStatus (src/pg_repository/scenarios.go)               *)
(***************************************************************************)

\* Largest integer taken as a ScheduledExecutionStatus, and the most
\* conversions chained on one value.
MaxStatusValue == 5

MaxConversions == 3

\* const ( ScheduledExecutionPending ScheduledExecutionStatus = iota ... )
ScheduledExecutionPending == 0

ScheduledExecutionProcessing == 1

ScheduledExecutionSuccess == 2

ScheduledExecutionFailure == 3

ScheduledExecutionStatuses ==
    {ScheduledExecutionPending, ScheduledExecutionProcessing,
     ScheduledExecutionSuccess, ScheduledExecutionFailure}

\* The type is an int: values outside the four constants exist.
StatusValues == (0 - 2)..MaxStatusValue

\* The strings handed to ScheduledExecutionStatusFrom: the four names, and
\* strings near them and far from them.
StatusNames == {"pending", "processing", "success", "failure"}

OtherStrings ==
    {"", " ", "Pending", "PENDING", "pending ", " pending", "pend", "pendin",
     "Processing", "processed", "process", "in_progress", "succes", "successful",
     "Success", "succeeded", "fail", "failed", "Failure", "failures", "error",
     "done", "unknown", "null", "0", "1", "2", "3", "status"}

\* A ScheduledExecutionStatus that answers "success" for a failure.
ScheduledExecutionStatus_String_FailureAsSuccess(s) ==
    CASE s = ScheduledExecutionPending -> "pending"
      [] s = ScheduledExecutionProcessing -> "processing"
      [] s = ScheduledExecutionSuccess -> "success"
      [] s = ScheduledExecutionFailure -> "success"
      [] OTHER -> "pending"

\* func (s ScheduledExecutionStatus) String() string
ScheduledExecutionStatus_String(s) ==
    CASE s = ScheduledExecutionPending -> "pending"
      [] s = ScheduledExecutionProcessing -> "processing"
      [] s = ScheduledExecutionSuccess -> "success"
      [] s = ScheduledExecutionFailure -> "failure"
      [] OTHER -> "pending"

\* func ScheduledExecutionStatusFrom(s string) ScheduledExecutionStatus
ScheduledExecutionStatusFrom(s) ==
    CASE s = "pending" -> ScheduledExecutionPending
      [] s = "success" -> ScheduledExecutionSuccess
      [] s = "failure" -> ScheduledExecutionFailure
      [] s = "processing" -> ScheduledExecutionProcessing
      [] OTHER -> ScheduledExecutionPending

\* A value with its type: strings and statuses are kept apart.
StatusV(s) == [kind |-> "status", val |-> s]

InitStatus ==
    /\ component = "status"
    /\ pc = "convert"
    /\ arguments \in {StatusV(s) : s \in StatusValues}
                     \cup {StringV(s) : s \in StatusNames \cup OtherStrings}
    /\ results = <<>>
    /\ calls = Nil
    /\ database = Nil
    /\ gcsClient = Nil
    /\ storageClients = Nil
    /\ repoCalls = Nil
    /\ faithful = Nil
    /\ registry = Nil
    /\ procs = Nil
    /\ evaluated = Nil
    /\ ctx = Nil
    /\ allErrs = Nil
    /\ stack = Nil
    /\ rootName = Nil
    /\ path = Nil
    /\ field = Nil
    /\ evaluation = Nil
    /\ tree = Nil
    /\ jsonBytes = Nil
    /\ tamperedAt = Nil
    /\ decoded = Nil

\* The value the next conversion is applied to: the input, then what the last
\* conversion returned.
Converted == IF results = <<>> THEN arguments ELSE results[Len(results)]

\* s.String() on the status at hand.
StatusToString ==
    /\ component = "status"
    /\ Len(results) < MaxConversions
    /\ Converted.kind = "status"
    /\ results' = Append(results, StringV(ScheduledExecutionStatus_String(Converted.val)))
    /\ UNCHANGED <<component, pc, arguments, calls, database, gcsClient, storageClients,
                   repoCalls, faithful, registry, procs, evaluated, ctx, allErrs, stack,
                   rootName, path, field, evaluation, tree, jsonBytes, tamperedAt, decoded>>

\* ScheduledExecutionStatusFrom on the string at hand.
StatusFromString ==
    /\ component = "status"
    /\ Len(results) < MaxConversions
    /\ Converted.kind = "string"
    /\ results' = Append(results, StatusV(ScheduledExecutionStatusFrom(Converted.val)))
    /\ UNCHANGED <<component, pc, arguments, calls, database, gcsClient, storageClients,
                   repoCalls, faithful, registry, procs, evaluated, ctx, allErrs, stack,
                   rootName, path, field, evaluation, tree, jsonBytes, tamperedAt, decoded>>

NextStatus == StatusToString \/ StatusFromString

SpecStatus == InitStatus /\ [][NextStatus]_vars

\* C30: for each of the four statuses ScheduledExecutionStatusFrom(s.String())
\* is s, the four strings are pairwise distinct, and every string that is not
\* one of the four maps to ScheduledExecutionPending.
StatusRoundTrips ==
    component = "status" =>
        /\ (/\ arguments.kind = "status"
            /\ arguments.val \in ScheduledExecutionStatuses
            /\ Len(results) >= 2) => results[2] = arguments
        /\ (/\ arguments.kind = "status"
            /\ Len(results) >= 1) =>
               \A other \in ScheduledExecutionStatuses :
                   (other # arguments.val /\ arguments.val \in ScheduledExecutionStatuses) =>
                       ScheduledExecutionStatus_String(other) # results[1].val
        /\ (/\ arguments.kind = "string"
            /\ arguments.val \notin {"pending", "processing", "success", "failure"}
            /\ Len(results) >= 1) => results[1] = StatusV(0)

\* ScheduledExecutionFailure went to "failure" and back.
FailureWentThroughItsString ==
    /\ component = "status"
    /\ arguments = StatusV(3)
    /\ Len(results) = 2
    /\ results[1] = StringV("failure")
    /\ results[2] = StatusV(3)

Init == InitCodec \/ InitEqual \/ InitFilter \/ InitFieldAt \/ InitAllErrors
        \/ InitDatabaseAccess \/ InitPayload \/ InitEvaluator \/ InitConcurrent
        \/ InitPublisher \/ InitGcs \/ InitWebhooks
        \/ InitStatus

Next == NextCodec \/ NextEqual \/ NextFilter \/ NextFieldAt \/ NextAllErrors
        \/ NextDatabaseAccess \/ NextPayload \/ NextEvaluator \/ NextConcurrent
        \/ NextPublisher \/ NextGcs \/ NextWebhooks
        \/ NextStatus

Spec == Init /\ [][Next]_vars

-----------------------------------------------------------------------------
====
